---- MODULE Spec2Model ----
(***************************************************************************)
(* Model of the LLM-response extraction and validation pipeline of         *)
(* claude-init (ClaudeClient in src/src/claude-client.ts).                 *)
(*                                                                         *)
(* Texts are sequences of one-symbol strings.  Punctuation, quotes,        *)
(* blanks and newlines are the characters themselves.  Longer lexemes      *)
(* that the code's regular expressions treat uniformly are written with    *)
(* one symbol each:                                                        *)
(*   "~"  the fence marker (three backquotes)                              *)
(*   "j"  the word json        "N" "T" "F"  the words null, true, false    *)
(*   "P" "A" "C" "R" "H"  the top-level key names                          *)
(*   "S" "G" "Q" "M"      the claudeRules sub-key names                    *)
(*   "O"  the key name hasOwnProperty                                      *)
(*   other lower-case letters: one word of prose or of string content      *)
(* Every such symbol is a run of \w characters in the source text, so the  *)
(* regular expressions of the code act on it as on the word it stands for. *)
(***************************************************************************)
EXTENDS Integers, Sequences, FiniteSets, TLC

\* ------------------------------------------------------------------------
\* Characters
\* ------------------------------------------------------------------------
Fence == "~"
JsonLabel == "j"
DQ == "\""
SQ == "'"
NL == "\n"
SP == " "

projectAnalysis == "P"
recommendedAgents == "A"
recommendedCommands == "C"
claudeRules == "R"
recommendedHooks == "H"
codingStandards == "S"
architectureGuidelines == "G"
testingRequirements == "Q"
simplicityGuardrails == "M"
hasOwnPropertyName == "O"

Digits == {"0", "1"}
Letters == {"P", "A", "C", "R", "H", "S", "G", "Q", "M", "O", "N", "T", "F", "j",
            "a", "b", "c", "d", "e", "f", "g", "h", "i", "k", "l", "m", "n",
            "o", "p", "q", "r", "s", "t", "u", "v", "w", "x", "y", "z"}

\* \s of the regular expressions and JSON white space
IsSpace(c) == c \in {SP, NL}

\* \w of the regular expressions
IsWord(c) == c \in Letters \cup Digits

SubStr(s, a, b) == IF a > b THEN << >> ELSE SubSeq(s, a, b)

RECURSIVE TrimLeftIdx(_, _)
TrimLeftIdx(s, i) ==
  IF i <= Len(s) /\ IsSpace(s[i]) THEN TrimLeftIdx(s, i + 1) ELSE i

RECURSIVE TrimRightIdx(_, _)
TrimRightIdx(s, i) ==
  IF i >= 1 /\ IsSpace(s[i]) THEN TrimRightIdx(s, i - 1) ELSE i

\* String.prototype.trim
Trim(s) == SubStr(s, TrimLeftIdx(s, 1), TrimRightIdx(s, Len(s)))

\* ------------------------------------------------------------------------
\* JSON values.  t is the kind, s the characters of a string or number,
\* e the entries of an array (keys empty) or object (in insertion order).
\* ------------------------------------------------------------------------
Undefined == [t |-> "undefined", s |-> << >>, e |-> << >>]
JNull == [t |-> "null", s |-> << >>, e |-> << >>]
JTrue == [t |-> "true", s |-> << >>, e |-> << >>]
JFalse == [t |-> "false", s |-> << >>, e |-> << >>]
JNum(digits) == [t |-> "number", s |-> digits, e |-> << >>]
JStr(chars) == [t |-> "string", s |-> chars, e |-> << >>]
Entry(key, val) == [k |-> key, v |-> val]
JArr(vals) == [t |-> "array", s |-> << >>,
               e |-> [i \in 1..Len(vals) |-> Entry(<< >>, vals[i])]]
JObj(entries) == [t |-> "object", s |-> << >>, e |-> entries]

KeyIndex(entries, key) ==
  LET hits == {i \in 1..Len(entries) : entries[i].k = key}
  IN IF hits = {} THEN 0 ELSE CHOOSE i \in hits : TRUE

\* obj[key] = val on a plain object: overwrite in place or append
SetKey(entries, key, val) ==
  LET i == KeyIndex(entries, key)
  IN IF i = 0 THEN Append(entries, Entry(key, val))
     ELSE [entries EXCEPT ![i] = Entry(key, val)]

\* ------------------------------------------------------------------------
\* JSON.parse
\* ------------------------------------------------------------------------
ParseFail == [ok |-> FALSE, v |-> Undefined, n |-> 0]
ParseOk(val, next) == [ok |-> TRUE, v |-> val, n |-> next]

RECURSIVE StringEnd(_, _)
\* index of the closing quote of a string literal whose content starts at
\* i, or 0 when the literal is unterminated or holds a raw newline
StringEnd(s, i) ==
  IF i > Len(s) THEN 0
  ELSE IF s[i] = DQ THEN i
  ELSE IF s[i] = NL THEN 0
  ELSE StringEnd(s, i + 1)

RECURSIVE DigitsEnd(_, _)
DigitsEnd(s, i) ==
  IF i <= Len(s) /\ s[i] \in Digits THEN DigitsEnd(s, i + 1) ELSE i

RECURSIVE ParseValue(_, _)
RECURSIVE ParseMembers(_, _, _)
RECURSIVE ParseElements(_, _, _)

\* members of an object after the opening brace or after a comma
ParseMembers(s, i, acc) ==
  LET a == TrimLeftIdx(s, i)
  IN IF a > Len(s) \/ s[a] # DQ THEN ParseFail
     ELSE LET q == StringEnd(s, a + 1)
          IN IF q = 0 THEN ParseFail
             ELSE LET c == TrimLeftIdx(s, q + 1)
                  IN IF c > Len(s) \/ s[c] # ":" THEN ParseFail
                     ELSE LET r == ParseValue(s, TrimLeftIdx(s, c + 1))
                          IN IF ~r.ok THEN ParseFail
                             ELSE LET acc2 == SetKey(acc, SubStr(s, a + 1, q - 1), r.v)
                                      d == TrimLeftIdx(s, r.n)
                                  IN IF d > Len(s) THEN ParseFail
                                     ELSE IF s[d] = "}" THEN ParseOk(JObj(acc2), d + 1)
                                     ELSE IF s[d] = "," THEN ParseMembers(s, d + 1, acc2)
                                     ELSE ParseFail

\* elements of an array after the opening bracket or after a comma
ParseElements(s, i, acc) ==
  LET r == ParseValue(s, TrimLeftIdx(s, i))
  IN IF ~r.ok THEN ParseFail
     ELSE LET acc2 == Append(acc, r.v)
              d == TrimLeftIdx(s, r.n)
          IN IF d > Len(s) THEN ParseFail
             ELSE IF s[d] = "]" THEN ParseOk(JArr(acc2), d + 1)
             ELSE IF s[d] = "," THEN ParseElements(s, d + 1, acc2)
             ELSE ParseFail

ParseValue(s, i) ==
  IF i > Len(s) THEN ParseFail
  ELSE IF s[i] = "{" THEN
    LET a == TrimLeftIdx(s, i + 1)
    IN IF a <= Len(s) /\ s[a] = "}" THEN ParseOk(JObj(<< >>), a + 1)
       ELSE ParseMembers(s, i + 1, << >>)
  ELSE IF s[i] = "[" THEN
    LET a == TrimLeftIdx(s, i + 1)
    IN IF a <= Len(s) /\ s[a] = "]" THEN ParseOk(JArr(<< >>), a + 1)
       ELSE ParseElements(s, i + 1, << >>)
  ELSE IF s[i] = DQ THEN
    LET q == StringEnd(s, i + 1)
    IN IF q = 0 THEN ParseFail ELSE ParseOk(JStr(SubStr(s, i + 1, q - 1)), q + 1)
  ELSE IF s[i] \in Digits THEN
    LET d == DigitsEnd(s, i)
    IN IF s[i] = "0" /\ d > i + 1 THEN ParseFail
       ELSE ParseOk(JNum(SubStr(s, i, d - 1)), d)
  ELSE IF s[i] = "N" THEN ParseOk(JNull, i + 1)
  ELSE IF s[i] = "T" THEN ParseOk(JTrue, i + 1)
  ELSE IF s[i] = "F" THEN ParseOk(JFalse, i + 1)
  ELSE ParseFail

\* JSON.parse(text): ok = FALSE stands for the SyntaxError it throws
JSONParse(s) ==
  LET r == ParseValue(s, TrimLeftIdx(s, 1))
  IN IF r.ok /\ TrimLeftIdx(s, r.n) > Len(s) THEN r ELSE ParseFail

Parses(s) == JSONParse(s).ok

\* ------------------------------------------------------------------------
\* JSON.stringify
\* ------------------------------------------------------------------------
RECURSIVE JSONStringify(_)
RECURSIVE StringifyEntries(_, _, _)

StringifyEntries(entries, i, isObject) ==
  IF i > Len(entries) THEN << >>
  ELSE (IF i > 1 THEN <<",">> ELSE << >>)
       \o (IF isObject THEN <<DQ>> \o entries[i].k \o <<DQ, ":">> ELSE << >>)
       \o JSONStringify(entries[i].v)
       \o StringifyEntries(entries, i + 1, isObject)

JSONStringify(v) ==
  CASE v.t = "object" -> <<"{">> \o StringifyEntries(v.e, 1, TRUE) \o <<"}">>
    [] v.t = "array" -> <<"[">> \o StringifyEntries(v.e, 1, FALSE) \o <<"]">>
    [] v.t = "string" -> <<DQ>> \o v.s \o <<DQ>>
    [] v.t = "number" -> v.s
    [] v.t = "null" -> <<"N">>
    [] v.t = "true" -> <<"T">>
    [] v.t = "false" -> <<"F">>

\* ------------------------------------------------------------------------
\* The regular expressions of extractJson
\* ------------------------------------------------------------------------
NoMatch == [found |-> FALSE, g1 |-> << >>, m0 |-> << >>]

AllSpace(s, a, b) == \A i \in a..b : IsSpace(s[i])

\* \n\s*~ matches at index b (~ the fence)
Closes(s, b) ==
  /\ s[b] = NL
  /\ TrimLeftIdx(s, b + 1) <= Len(s)
  /\ s[TrimLeftIdx(s, b + 1)] = Fence

\* the match whose group opens after the newline at a and closes before
\* the newline at b
FenceGroup(s, i, a, b) ==
  [found |-> TRUE,
   g1 |-> SubStr(s, a + 1, b - 1),
   m0 |-> SubStr(s, i, TrimLeftIdx(s, b + 1))]

\* the group is lazy: the first newline that is followed by white space
\* and a fence closes it
FenceFrom(s, i, a) ==
  FenceGroup(s, i, a, CHOOSE x \in (a + 1)..Len(s) :
                        /\ Closes(s, x)
                        /\ \A y \in (a + 1)..(x - 1) : ~Closes(s, y))

\* \s* is greedy: the last usable newline of the header's white space
\* opens the group
FenceOpened(s, i, opens) ==
  IF opens = {} THEN NoMatch
  ELSE FenceFrom(s, i, CHOOSE x \in opens : \A y \in opens : y <= x)

\* /~json\s*\n([\s\S]*?)\n\s*~/ (labelled) and /~\s*\n([\s\S]*?)\n\s*~/, ~ the fence,
\* anchored at index i; h is the index after the fence and its label
FenceMatchAt(s, i, labelled) ==
  LET h == IF labelled THEN i + 2 ELSE i + 1
  IN IF \/ i > Len(s)
        \/ s[i] # Fence
        \/ (labelled /\ (i + 1 > Len(s) \/ s[i + 1] # JsonLabel))
     THEN NoMatch
     ELSE FenceOpened(s, i, {a \in h..Len(s) :
                               /\ AllSpace(s, h, a - 1)
                               /\ s[a] = NL
                               /\ \E b \in (a + 1)..Len(s) : Closes(s, b)})

FenceMatchFrom(s, starts, labelled) ==
  IF starts = {} THEN NoMatch
  ELSE FenceMatchAt(s, CHOOSE i \in starts : \A k \in starts : i <= k, labelled)

\* String.prototype.match without the g flag: the leftmost match
FenceMatch(s, labelled) ==
  FenceMatchFrom(s, {i \in 1..Len(s) : FenceMatchAt(s, i, labelled).found}, labelled)

IndexOf(s, c) ==
  LET hits == {i \in 1..Len(s) : s[i] = c}
  IN IF hits = {} THEN 0 ELSE CHOOSE i \in hits : \A k \in hits : i <= k

LastIndexOf(s, c) ==
  LET hits == {i \in 1..Len(s) : s[i] = c}
  IN IF hits = {} THEN 0 ELSE CHOOSE i \in hits : \A k \in hits : i >= k

\* GreedyBraceMatch that stops at the first closing brace
GreedyBraceMatchShortest(s) ==
  LET f == IndexOf(s, "{")
      ends == {i \in 1..Len(s) : i > f /\ s[i] = "}"}
  IN IF f = 0 \/ ends = {} THEN NoMatch
     ELSE LET l == CHOOSE i \in ends : \A k \in ends : i <= k
          IN [found |-> TRUE, g1 |-> SubStr(s, f, l), m0 |-> SubStr(s, f, l)]

\* /(\{[\s\S]*\})/ : from the first opening brace to the last closing brace
GreedyBraceMatch(s) ==
  LET f == IndexOf(s, "{")
      l == LastIndexOf(s, "}")
  IN IF f = 0 \/ l < f THEN NoMatch
     ELSE [found |-> TRUE, g1 |-> SubStr(s, f, l), m0 |-> SubStr(s, f, l)]

\* /(\{[\s\S]*?\})/ : from the first opening brace to the first closing
\* brace after it
LazyBraceMatch(s) ==
  LET f == IndexOf(s, "{")
      ends == {i \in 1..Len(s) : i > f /\ s[i] = "}"}
  IN IF f = 0 \/ ends = {} THEN NoMatch
     ELSE LET l == CHOOSE i \in ends : \A k \in ends : i <= k
          IN [found |-> TRUE, g1 |-> SubStr(s, f, l), m0 |-> SubStr(s, f, l)]

RECURSIVE LastResortEnd(_, _, _)
\* /\{[^{}]*(?:\{[^{}]*\}[^{}]*)*\}/ after its opening brace: the index of
\* the closing brace, or 0.  inner = TRUE inside a nested pair of braces.
LastResortEnd(s, p, inner) ==
  IF p > Len(s) THEN 0
  ELSE IF s[p] = "}" THEN (IF inner THEN LastResortEnd(s, p + 1, FALSE) ELSE p)
  ELSE IF s[p] = "{" THEN (IF inner THEN 0 ELSE LastResortEnd(s, p + 1, TRUE))
  ELSE LastResortEnd(s, p + 1, inner)

LastResortMatch(s) ==
  LET starts == {i \in 1..Len(s) : s[i] = "{" /\ LastResortEnd(s, i + 1, FALSE) # 0}
  IN IF starts = {} THEN NoMatch
     ELSE LET f == CHOOSE i \in starts : \A k \in starts : i <= k
              m == SubStr(s, f, LastResortEnd(s, f + 1, FALSE))
          IN [found |-> TRUE, g1 |-> m, m0 |-> m]

\* ------------------------------------------------------------------------
\* repairJson
\* ------------------------------------------------------------------------
RECURSIVE StripTrailingCommas(_, _)
\* replace(/,(\s*[}\]])/g, '$1')
StripTrailingCommas(s, i) ==
  IF i > Len(s) THEN << >>
  ELSE LET j == TrimLeftIdx(s, i + 1)
       IN IF s[i] = "," /\ j <= Len(s) /\ s[j] \in {"}", "]"}
          THEN SubStr(s, i + 1, j) \o StripTrailingCommas(s, j + 1)
          ELSE <<s[i]>> \o StripTrailingCommas(s, i + 1)

\* replace(/'/g, '"')
ReplaceSingleQuotes(s) == [i \in 1..Len(s) |-> IF s[i] = SQ THEN DQ ELSE s[i]]

RECURSIVE WordEnd(_, _)
WordEnd(s, i) ==
  IF i + 1 <= Len(s) /\ IsWord(s[i + 1]) THEN WordEnd(s, i + 1) ELSE i

RECURSIVE QuoteKeys(_, _)
\* replace(/(\w+)(\s*:\s*)/g, '"$1"$2')
QuoteKeys(s, i) ==
  IF i > Len(s) THEN << >>
  ELSE IF ~IsWord(s[i]) THEN <<s[i]>> \o QuoteKeys(s, i + 1)
  ELSE LET e == WordEnd(s, i)
           c == TrimLeftIdx(s, e + 1)
       IN IF c <= Len(s) /\ s[c] = ":"
          THEN LET k == TrimLeftIdx(s, c + 1)
               IN <<DQ>> \o SubStr(s, i, e) \o <<DQ>> \o SubStr(s, e + 1, k - 1)
                  \o QuoteKeys(s, k)
          ELSE SubStr(s, i, e) \o QuoteKeys(s, e + 1)

RECURSIVE NextQuote(_, _)
NextQuote(s, i) ==
  IF i > Len(s) THEN 0 ELSE IF s[i] = DQ THEN i ELSE NextQuote(s, i + 1)

RECURSIVE CollapseDoubleQuotes(_, _)
\* replace(/""([^"]+)""/g, '"$1"')
CollapseDoubleQuotes(s, i) ==
  IF i > Len(s) THEN << >>
  ELSE LET q == NextQuote(s, i + 2)
       IN IF /\ s[i] = DQ
             /\ i + 1 <= Len(s) /\ s[i + 1] = DQ
             /\ q > i + 2
             /\ q + 1 <= Len(s) /\ s[q + 1] = DQ
          THEN <<DQ>> \o SubStr(s, i + 2, q - 1) \o <<DQ>>
               \o CollapseDoubleQuotes(s, q + 2)
          ELSE <<s[i]>> \o CollapseDoubleQuotes(s, i + 1)

RECURSIVE DropCommaBefore(_, _, _)
\* replace(/,\s*}/g, '}') and replace(/,\s*]/g, ']')
DropCommaBefore(s, i, close) ==
  IF i > Len(s) THEN << >>
  ELSE LET j == TrimLeftIdx(s, i + 1)
       IN IF s[i] = "," /\ j <= Len(s) /\ s[j] = close
          THEN <<close>> \o DropCommaBefore(s, j + 1, close)
          ELSE <<s[i]>> \o DropCommaBefore(s, i + 1, close)

RECURSIVE BraceScanEnd(_, _, _)
\* the for loop of repairJson: index of the brace that brings braceCount
\* back to 0, or 0 when the text ends first
BraceScanEnd(s, i, braceCount) ==
  IF i > Len(s) THEN 0
  ELSE IF s[i] = "{" THEN BraceScanEnd(s, i + 1, braceCount + 1)
  ELSE IF s[i] = "}" THEN
    (IF braceCount - 1 = 0 THEN i ELSE BraceScanEnd(s, i + 1, braceCount - 1))
  ELSE BraceScanEnd(s, i + 1, braceCount)

\* the text after the six replace calls of repairJson
RepairTransforms(jsonStr) ==
  LET r1 == StripTrailingCommas(jsonStr, 1)
      r2 == ReplaceSingleQuotes(r1)
      r3 == QuoteKeys(r2, 1)
      r4 == CollapseDoubleQuotes(r3, 1)
      r5 == DropCommaBefore(r4, 1, "}")
  IN DropCommaBefore(r5, 1, "]")

\* "Find the first complete JSON object" in the repaired text; isNull =
\* TRUE stands for the null repairJson returns
FirstCompleteObject(repaired) ==
  LET start == IndexOf(repaired, "{")
      end == BraceScanEnd(repaired, start, 0)
  IN IF start = 0 THEN [isNull |-> TRUE, str |-> << >>]
     ELSE IF end # 0 THEN [isNull |-> FALSE, str |-> SubStr(repaired, start, end)]
     ELSE [isNull |-> FALSE, str |-> repaired]

repairJson(jsonStr) == FirstCompleteObject(RepairTransforms(jsonStr))

\* ------------------------------------------------------------------------
\* extractJson
\* ------------------------------------------------------------------------
\* FirstMatch that tries the unlabelled fence before the labelled one
FirstMatchUnlabelledFirst(m1, m2, m3) ==
  IF m2.found THEN [m |-> m2, strategy |-> "fenced-generic-block"]
  ELSE IF m1.found THEN [m |-> m1, strategy |-> "fenced-json-block"]
  ELSE IF m3.found THEN [m |-> m3, strategy |-> "brace-scan"]
  ELSE [m |-> NoMatch, strategy |-> "none"]

\* m1 || m2 || m3, with the name of the pattern that matched
FirstMatch(m1, m2, m3) ==
  IF m1.found THEN [m |-> m1, strategy |-> "fenced-json-block"]
  ELSE IF m2.found THEN [m |-> m2, strategy |-> "fenced-generic-block"]
  ELSE IF m3.found THEN [m |-> m3, strategy |-> "brace-scan"]
  ELSE [m |-> NoMatch, strategy |-> "none"]

\* text.match(labelled fence) || text.match(plain fence) || text.match(braces)
JsonMatch(text) ==
  FirstMatch(FenceMatch(text, TRUE), FenceMatch(text, FALSE), GreedyBraceMatch(text))

\* Extracted without the call of trim
ExtractedUntrimmed(m) == IF m.g1 # << >> THEN m.g1 ELSE m.m0

\* jsonMatch[1] || jsonMatch[0], trimmed
Extracted(m) == Trim(IF m.g1 # << >> THEN m.g1 ELSE m.m0)

\* a return statement of extractJson, with a record of the path taken: out
\* is the returned string, strategy the regular expression that supplied
\* it, via the return statement reached, tried whether JSON.parse was
\* attempted on a match, parsedDirect whether that first attempt succeeded,
\* repairCalled whether repairJson ran
Returns(out, strategy, via, parsedDirect, tried, repairCalled) ==
  [done |-> TRUE, out |-> out, strategy |-> strategy, via |-> via,
   parsedDirect |-> parsedDirect, tried |-> tried, repairCalled |-> repairCalled]

\* control leaves the if (jsonMatch) block without returning
FallsThrough(strategy, tried) ==
  [done |-> FALSE, strategy |-> strategy, tried |-> tried]

\* if (repaired) { JSON.parse(repaired); return repaired; } on the object
\* match
ObjectRepaired(strategy, repaired) ==
  IF ~repaired.isNull /\ Parses(repaired.str)
  THEN Returns(repaired.str, strategy, "object-repaired", FALSE, TRUE, TRUE)
  ELSE FallsThrough(strategy, TRUE)

\* if (objectMatch) { ... }
ObjectMatched(strategy, objectMatch) ==
  IF objectMatch.found THEN ObjectRepaired(strategy, repairJson(objectMatch.m0))
  ELSE FallsThrough(strategy, TRUE)

\* if (repairedJson) { JSON.parse(repairedJson); return repairedJson; },
\* then the object match on the extracted text
Repaired(strategy, extracted, repairedJson) ==
  IF ~repairedJson.isNull /\ Parses(repairedJson.str)
  THEN Returns(repairedJson.str, strategy, "repaired", FALSE, TRUE, TRUE)
  ELSE ObjectMatched(strategy, LazyBraceMatch(extracted))

\* try { JSON.parse(extracted); return extracted; } catch { ... }
Candidate(strategy, extracted) ==
  IF Parses(extracted)
  THEN Returns(extracted, strategy, "direct", TRUE, TRUE, FALSE)
  ELSE Repaired(strategy, extracted, repairJson(extracted))

\* if (jsonMatch) { ... }
Matched(jm) ==
  IF jm.m.found THEN Candidate(jm.strategy, Extracted(jm.m))
  ELSE FallsThrough("none", FALSE)

\* if (repaired) { try { JSON.parse(repaired); return repaired; } catch {} }
\* return lastResortMatch[0];
LastResortRepaired(lr, rep, tried) ==
  IF ~rep.isNull /\ Parses(rep.str)
  THEN Returns(rep.str, "last-resort-regex", "last-resort-repaired", FALSE, tried, TRUE)
  ELSE Returns(lr.m0, "last-resort-regex", "last-resort-raw", FALSE, tried, TRUE)

\* LastResortMatched that returns the empty string when nothing matched
LastResortMatchedEmpty(text, lr, strategy, tried) ==
  IF lr.found THEN LastResortRepaired(lr, repairJson(lr.m0), tried)
  ELSE Returns(<< >>, strategy, "text", FALSE, tried, tried)

\* if (lastResortMatch) { ... } return text;
LastResortMatched(text, lr, strategy, tried) ==
  IF lr.found THEN LastResortRepaired(lr, repairJson(lr.m0), tried)
  ELSE Returns(text, strategy, "text", FALSE, tried, tried)

\* the part of extractJson after its first if statement: the last-resort
\* regular expression on the whole text, then the text itself
LastResort(text, before) ==
  IF before.done THEN before
  ELSE LastResortMatched(text, LastResortMatch(text), before.strategy, before.tried)

\* extractJson with the record of the path taken
ExtractRun(text) == LastResort(text, Matched(JsonMatch(text)))

extractJson(text) == ExtractRun(text).out

\* ------------------------------------------------------------------------
\* JavaScript property access on a parsed value
\* ------------------------------------------------------------------------
Key(c) == <<c>>

\* parsed.hasOwnProperty(field) for the field names used by the client
HasOwnProperty(parsed, field) ==
  parsed.t = "object" /\ KeyIndex(parsed.e, field) # 0

\* parsed[field]
GetProp(parsed, field) ==
  IF HasOwnProperty(parsed, field) THEN parsed.e[KeyIndex(parsed.e, field)].v
  ELSE Undefined

\* !value
Falsy(value) ==
  \/ value.t \in {"undefined", "null", "false"}
  \/ (value.t = "number" /\ value.s = <<"0">>)
  \/ (value.t = "string" /\ value.s = << >>)

\* Array.isArray(value)
IsArray(value) == value.t = "array"

\* ------------------------------------------------------------------------
\* Validation of the permissive client (src/src/claude-client.ts)
\* ------------------------------------------------------------------------
RequiredFields ==
  <<Key(projectAnalysis), Key(recommendedAgents), Key(recommendedCommands), Key(claudeRules)>>

\* requiredFields.filter(field => !parsed.hasOwnProperty(field))
MissingFields(parsed) ==
  SelectSeq(RequiredFields, LAMBDA f : ~HasOwnProperty(parsed, f))

\* rule texts, one symbol sequence per distinct string literal
FollowExistingCodePatterns == <<"f", "e", "c", "p">>
KeepSolutionsSimple == <<"k", "s", "s">>
WriteRealTestsNotJustMocks == <<"w", "r", "t">>
ImplementOnlyWhatIsRequired == <<"i", "o", "w", "r">>

\* the object literal assigned to parsed.claudeRules
DefaultClaudeRules ==
  JObj(<<Entry(Key(codingStandards), JArr(<<JStr(FollowExistingCodePatterns)>>)),
         Entry(Key(architectureGuidelines), JArr(<<JStr(KeepSolutionsSimple)>>)),
         Entry(Key(testingRequirements), JArr(<<JStr(WriteRealTestsNotJustMocks)>>)),
         Entry(Key(simplicityGuardrails), JArr(<<JStr(ImplementOnlyWhatIsRequired)>>))>>)

\* if (!parsed[field]) parsed[field] = value, on a plain object
DefaultIfFalsy(entries, field, value) ==
  IF Falsy(GetProp(JObj(entries), field)) THEN SetKey(entries, field, value)
  ELSE entries

\* the four guarded assignments "Add minimal default structure for missing
\* fields".  threw = TRUE is the TypeError of assigning a property to a
\* primitive in strict-mode code; an array takes the properties, and
\* JSON.stringify does not serialise them.
AddDefaults(parsed) ==
  IF parsed.t = "object" THEN
    LET e1 == DefaultIfFalsy(parsed.e, Key(recommendedAgents), JArr(<< >>))
        e2 == DefaultIfFalsy(e1, Key(recommendedCommands), JArr(<< >>))
        e3 == DefaultIfFalsy(e2, Key(recommendedHooks), JObj(<< >>))
        e4 == DefaultIfFalsy(e3, Key(claudeRules), DefaultClaudeRules)
    IN [threw |-> FALSE, v |-> JObj(e4)]
  ELSE IF parsed.t = "array" THEN [threw |-> FALSE, v |-> parsed]
  ELSE [threw |-> TRUE, v |-> parsed]

\* parsed.hasOwnProperty is not callable: parsed is null, or an object
\* whose own key hasOwnProperty shadows the inherited method
HasOwnPropertyThrows(parsed) ==
  \/ parsed.t = "null"
  \/ HasOwnProperty(parsed, Key(hasOwnPropertyName))

\* return JSON.stringify(parsed) after the guarded assignments
Defaulted(d) ==
  [threw |-> d.threw,
   out |-> IF d.threw THEN << >> ELSE JSONStringify(d.v),
   stages |-> <<"PolicyBranch", "SynthesizeDefaults">>]

\* the body of the try block after JSON.parse succeeded.  threw = TRUE: a
\* TypeError left the block (the hasOwnProperty call, assignment to a
\* primitive); stages lists the steps passed after Validate.
ValidatePermissive(parsed, extracted) ==
  IF HasOwnPropertyThrows(parsed)
  THEN [threw |-> TRUE, out |-> << >>, stages |-> << >>]
  ELSE IF Len(MissingFields(parsed)) > 0
  THEN Defaulted(AddDefaults(parsed))
  ELSE [threw |-> FALSE, out |-> extracted, stages |-> << >>]

\* ------------------------------------------------------------------------
\* createIntelligentFallback
\* ------------------------------------------------------------------------
\* Keywords of the scan, one symbol per keyword-bearing word of the
\* lower-cased response: y python, t typescript, r react, f fastapi,
\* d django, z azure, k docker, b bicep, n n8n, u fullstack, o frontend,
\* e backend, p enterprise, m microservice, a api, l cli, c complex,
\* s simple, i basic, g npm, v pipeline, q pytest, h inadequate.
\* fastapi contains api; azure pipeline is azure, a blank, pipeline.
Includes(text, c) == \E i \in 1..Len(text) : text[i] = c

IncludesPair(text, c1, c2) ==
  \E i \in 1..Len(text) :
    i + 2 <= Len(text) /\ text[i] = c1 /\ text[i + 1] = SP /\ text[i + 2] = c2

Str1(c) == JStr(<<c>>)

\* the pushes of a sequence of guarded statements, in statement order
Pushes(guarded) ==
  LET kept == SelectSeq(guarded, LAMBDA g : g.cond)
  IN [i \in 1..Len(kept) |-> kept[i].push]

When(cond, val) == [cond |-> cond, push |-> val]

FallbackTools == JArr(<<Str1("r"), Str1("w"), Str1("e"), Str1("b"), Str1("g")>>)

PythonBackendSpecialist ==
  JObj(<<Entry(<<"n", "a">>, JStr(<<"p", "b", "s">>)),
         Entry(<<"d", "e">>, JStr(<<"e", "p", "b">>)),
         Entry(<<"t", "o">>, FallbackTools),
         Entry(<<"s", "p">>, JStr(<<"y", "p", "s">>))>>)

TypeScriptFrontendSpecialist ==
  JObj(<<Entry(<<"n", "a">>, JStr(<<"t", "f", "s">>)),
         Entry(<<"d", "e">>, JStr(<<"e", "t", "r">>)),
         Entry(<<"t", "o">>, FallbackTools),
         Entry(<<"s", "p">>, JStr(<<"y", "t", "s">>))>>)

createIntelligentFallback(responseText) ==
  LET text == responseText
      python == Includes(text, "y")
      typescript == Includes(text, "t") \/ Includes(text, "r")
      detectedTechnologies ==
        Pushes(<<When(python, JStr(<<"P", "y">>)),
                 When(typescript, JStr(<<"T", "s">>)),
                 When(Includes(text, "r"), JStr(<<"R", "e">>)),
                 When(Includes(text, "f"), JStr(<<"F", "a">>)),
                 When(Includes(text, "d"), JStr(<<"D", "j">>)),
                 When(Includes(text, "z"), JStr(<<"A", "z">>)),
                 When(Includes(text, "k"), JStr(<<"D", "o">>)),
                 When(Includes(text, "b"), JStr(<<"A", "b">>)),
                 When(Includes(text, "n"), JStr(<<"N", "8">>))>>)
      mainLanguages ==
        Pushes(<<When(python, JStr(<<"P", "y">>)),
                 When(typescript, JStr(<<"T", "s">>))>>)
      enterprise == Includes(text, "p") \/ Includes(text, "m")
      projectType ==
        IF Includes(text, "u") \/ (Includes(text, "o") /\ Includes(text, "e"))
        THEN <<"f", "w", "a">>
        ELSE IF enterprise THEN <<"e", "s">>
        ELSE IF Includes(text, "a") \/ Includes(text, "f") THEN <<"a", "s">>
        ELSE IF Includes(text, "l") THEN <<"c", "t">>
        ELSE <<"u", "n">>
      complexity ==
        IF Includes(text, "c") \/ enterprise THEN <<"h", "i">>
        ELSE IF Includes(text, "s") \/ Includes(text, "i") THEN <<"l", "o">>
        ELSE <<"m", "e">>
      buildTools ==
        Pushes(<<When(Includes(text, "g"), JStr(<<"n", "p", "m">>)),
                 When(Includes(text, "k"), JStr(<<"d", "o">>)),
                 When(IncludesPair(text, "z", "v"), JStr(<<"A", "p">>)),
                 When(Includes(text, "q"), JStr(<<"p", "t">>))>>)
      inadequate == Includes(text, "h")
      testingSetup == IF inadequate THEN <<"m", "o", "i">> ELSE <<"u", "n">>
      testingRules ==
        IF inadequate
        THEN JArr(<<JStr(<<"c", "1">>), JStr(<<"c", "2">>), JStr(<<"c", "3">>), JStr(<<"c", "4">>)>>)
        ELSE JArr(<<JStr(<<"w", "r", "i">>), JStr(<<"a", "m", "o">>)>>)
      agents ==
        Pushes(<<When(python, PythonBackendSpecialist),
                 When(typescript, TypeScriptFrontendSpecialist)>>)
  IN JObj(<<
       Entry(Key(projectAnalysis),
             JObj(<<Entry(<<"d", "t">>, JArr(detectedTechnologies)),
                    Entry(<<"p", "t">>, JStr(projectType)),
                    Entry(<<"c", "x">>, JStr(complexity)),
                    Entry(<<"b", "t">>, JArr(buildTools)),
                    Entry(<<"t", "s">>, JStr(testingSetup)),
                    Entry(<<"m", "l">>, JArr(mainLanguages))>>)),
       Entry(Key(recommendedAgents), JArr(agents)),
       Entry(Key(recommendedCommands), JArr(<< >>)),
       Entry(Key(recommendedHooks), JObj(<< >>)),
       Entry(Key(claudeRules),
             JObj(<<Entry(Key(codingStandards),
                          JArr(<<JStr(FollowExistingCodePatterns), JStr(<<"i", "e", "h">>)>>)),
                    Entry(Key(architectureGuidelines),
                          JArr(<<JStr(KeepSolutionsSimple), JStr(<<"u", "e", "p">>)>>)),
                    Entry(Key(testingRequirements), testingRules),
                    Entry(Key(simplicityGuardrails),
                          JArr(<<JStr(ImplementOnlyWhatIsRequired), JStr(<<"p", "c", "c">>)>>))>>))>>)

\* ------------------------------------------------------------------------
\* Validation of the strict client (quality validation with QualityError)
\* ------------------------------------------------------------------------
MinAgents == 2
MinRuleCategories == 2

Failure(kind, field) == [kind |-> kind, field |-> field]

\* number of agents, and of top-level rule categories, of a parsed value
AgentCount(parsed) ==
  LET a == GetProp(parsed, Key(recommendedAgents))
  IN IF IsArray(a) THEN Len(a.e) ELSE 0

RuleCategoryCount(parsed) ==
  LET r == GetProp(parsed, Key(claudeRules))
  IN IF r.t = "object" THEN Len(r.e) ELSE 0

\* QualityFailures that forgets the missing fields
QualityFailuresCountsOnly(parsed) ==
  (IF HasOwnProperty(parsed, <<"A">>) /\ AgentCount(parsed) < 2
   THEN <<Failure("too-few", <<"A">>)>> ELSE << >>)
  \o (IF HasOwnProperty(parsed, <<"R">>) /\ RuleCategoryCount(parsed) < 2
      THEN <<Failure("too-few", <<"R">>)>> ELSE << >>)

\* QualityFailures that forgets the minimum counts
QualityFailuresMissingOnly(parsed) ==
  LET missing == MissingFields(parsed)
  IN [i \in 1..Len(missing) |-> Failure("missing", missing[i])]

\* the validation failures of a parsed completion: one per missing required
\* field, then, for the fields that are present, a command list that is not
\* an array and the counts below the minimum (a value of the wrong container
\* type counts as holding nothing)
QualityFailures(parsed) ==
  LET missing == MissingFields(parsed)
  IN [i \in 1..Len(missing) |-> Failure("missing", missing[i])]
     \o (IF HasOwnProperty(parsed, Key(recommendedAgents)) /\ AgentCount(parsed) < MinAgents
         THEN <<Failure("too-few", Key(recommendedAgents))>> ELSE << >>)
     \o (IF /\ HasOwnProperty(parsed, Key(recommendedCommands))
            /\ ~IsArray(GetProp(parsed, Key(recommendedCommands)))
         THEN <<Failure("wrong-type", Key(recommendedCommands))>> ELSE << >>)
     \o (IF HasOwnProperty(parsed, Key(claudeRules)) /\ RuleCategoryCount(parsed) < MinRuleCategories
         THEN <<Failure("too-few", Key(claudeRules))>> ELSE << >>)

RuleSubKeys ==
  <<Key(codingStandards), Key(architectureGuidelines),
    Key(testingRequirements), Key(simplicityGuardrails)>>

RECURSIVE InjectRuleDefaults(_, _)
\* claudeRules entries with the default list added for every expected
\* sub-key that is absent
InjectRuleDefaults(entries, i) ==
  IF i > Len(RuleSubKeys) THEN entries
  ELSE InjectRuleDefaults(
         IF KeyIndex(entries, RuleSubKeys[i]) = 0
         THEN SetKey(entries, RuleSubKeys[i], GetProp(DefaultClaudeRules, RuleSubKeys[i]))
         ELSE entries,
         i + 1)

\* the configuration with the claudeRules defaults injected: the text as
\* extracted when nothing was absent
WithRuleDefaults(parsed, extracted, rules, injected) ==
  IF injected = rules
  THEN [threw |-> FALSE, out |-> extracted, failures |-> << >>]
  ELSE [threw |-> FALSE, failures |-> << >>,
        out |-> JSONStringify(JObj(SetKey(parsed.e, Key(claudeRules), JObj(injected))))]

StrictVerdict(parsed, extracted, failures) ==
  IF Len(failures) > 0
  THEN [threw |-> TRUE, out |-> << >>, failures |-> failures]
  ELSE WithRuleDefaults(parsed, extracted, GetProp(parsed, Key(claudeRules)).e,
                        InjectRuleDefaults(GetProp(parsed, Key(claudeRules)).e, 1))

\* strict validation of a parsed completion: a QualityError carrying the
\* failures, or the configuration with the claudeRules defaults injected
ValidateStrict(parsed, extracted) ==
  StrictVerdict(parsed, extracted, QualityFailures(parsed))

\* ------------------------------------------------------------------------
\* The catch blocks
\* ------------------------------------------------------------------------
Outcome(kind, str, err, failures, last) ==
  [outcome |-> kind, result |-> str, error |-> err, failures |-> failures, stages |-> last]

\* CatchAnalyzeCodebase whose fallback came back null
CatchAnalyzeCodebaseNoFallback(text) ==
  Outcome("throw", << >>, "Failed to extract valid JSON", << >>, <<"Fallback", "Fail">>)

\* catch block of analyzeCodebase in src/src/claude-client.ts: the
\* fallback object is never null, so the throw after it is not reached
CatchAnalyzeCodebase(text) ==
  Outcome("return", JSONStringify(createIntelligentFallback(text)), "none", << >>,
          <<"Fallback", "Return">>)

\* CatchThrow that swallows the error and returns an empty object
CatchThrowSwallowed(text) ==
  Outcome("return", <<"{", "}">>, "none", << >>, <<"Return">>)

\* catch block of generateFromIdea, and of both methods of the earlier
\* client: throw new Error('Failed to extract valid JSON from Claude
\* response: ...')
CatchThrow(text) ==
  Outcome("throw", << >>, "Failed to extract valid JSON", << >>, <<"Fail">>)

CatchBlock(method, policy, text) ==
  IF policy = "permissive" /\ method = "analyzeCodebase"
  THEN CatchAnalyzeCodebase(text)
  ELSE CatchThrow(text)

\* ------------------------------------------------------------------------
\* analyzeCodebase / generateFromIdea after the API call resolved
\* ------------------------------------------------------------------------
\* the steps up to validation.  DirectParse is the first JSON.parse of the
\* candidate: the one inside extractJson on the matched text, or the one of
\* the try block when nothing matched.  Repair is what extractJson does
\* when that parse does not succeed: its catch block and its last-resort
\* section.
StagesBeforeValidate(run) ==
  <<"Start", "DirectParse">>
  \o (IF run.parsedDirect \/ (~run.tried /\ Parses(run.out)) THEN << >> ELSE <<"Repair">>)

StrictOutcome(strict) ==
  IF strict.threw
  THEN Outcome("throw", << >>, "Claude analysis does not meet quality standards",
               strict.failures, <<"Validate", "PolicyBranch", "Fail">>)
  ELSE Outcome("return", strict.out, "none", << >>, <<"Validate", "Return">>)

\* a TypeError thrown by the validation lands in the same catch block as
\* the SyntaxError of JSON.parse
PermissiveOutcome(lenient, caught) ==
  IF lenient.threw
  THEN [caught EXCEPT !.stages = <<"Validate">> \o lenient.stages \o caught.stages]
  ELSE Outcome("return", lenient.out, "none", << >>,
               <<"Validate">> \o lenient.stages \o <<"Return">>)

\* try { const parsed = JSON.parse(extracted); ... } catch (error) { ... }
TryBlock(method, policy, text, extracted, p) ==
  IF ~p.ok THEN CatchBlock(method, policy, text)
  ELSE IF policy = "strict" THEN StrictOutcome(ValidateStrict(p.v, extracted))
  ELSE PermissiveOutcome(ValidatePermissive(p.v, extracted), CatchBlock(method, policy, text))

Concluded(run, o) ==
  [extracted |-> run.out, outcome |-> o.outcome, result |-> o.result,
   error |-> o.error, failures |-> o.failures,
   trace |-> StagesBeforeValidate(run) \o o.stages]

HandleExtracted(method, policy, text, run) ==
  Concluded(run, TryBlock(method, policy, text, run.out, JSONParse(run.out)))

Handle(method, policy, text) ==
  HandleExtracted(method, policy, text, ExtractRun(text))

\* ------------------------------------------------------------------------
\* Completions the API may return
\* ------------------------------------------------------------------------
MaxAgents == 2
MaxCalls == 2

Absent == Undefined

RECURSIVE EmptyObjects(_)
\* n agent records
EmptyObjects(n) == IF n = 0 THEN << >> ELSE Append(EmptyObjects(n - 1), JObj(<< >>))

ProjectAnalysisChoices == {Absent, JObj(<< >>), JStr(<<"x">>)}
AgentsChoices == {Absent, JNull} \cup {JArr(EmptyObjects(n)) : n \in 0..MaxAgents}
CommandsChoices == {Absent, JArr(<< >>), JNum(<<"0">>)}
HooksChoices == {Absent, JFalse}
RulesChoices ==
  {Absent, JNull, JObj(<< >>),
   JObj(<<Entry(Key(codingStandards), JArr(<<Str1("x")>>)),
          Entry(Key(architectureGuidelines), JArr(<< >>))>>),
   JObj(<<Entry(Key(codingStandards), JArr(<<Str1("x")>>)),
          Entry(Key(architectureGuidelines), JArr(<<Str1("x")>>)),
          Entry(Key(testingRequirements), JArr(<<Str1("x")>>)),
          Entry(Key(simplicityGuardrails), JArr(<<Str1("x")>>))>>)}

Member(field, value) == IF value = Absent THEN << >> ELSE <<Entry(Key(field), value)>>

\* completions that are one JSON object over the configuration fields
ConfigObjects ==
  {JObj(Member(projectAnalysis, p) \o Member(recommendedAgents, a)
        \o Member(recommendedCommands, c) \o Member(recommendedHooks, h)
        \o Member(claudeRules, r)) :
     p \in ProjectAnalysisChoices, a \in AgentsChoices, c \in CommandsChoices,
     h \in HooksChoices, r \in RulesChoices}

\* other JSON values, near-JSON that repair can or cannot mend, and prose
OtherBodies ==
  {<<"N">>, <<"T">>, <<"F">>, <<"0">>, <<"1">>, <<DQ, "x", DQ>>, <<DQ, DQ>>,
   <<"[", "]">>, <<"[", "{", "}", "]">>,
   << >>, <<"x", SP, "x">>, <<"y", SP, "x">>, <<"t", SP, "h">>, <<"z", SP, "v", SP, "k">>,
   <<"{", DQ, "P", DQ, ":", "{", "}", ",", "}">>,
   <<"{", SQ, "P", SQ, ":", "1", "}">>,
   <<"{", "P", ":", SP, "[", "]", ",", "A", ":", "[", "1", ",", "]", "}">>,
   <<"{", DQ, "P", DQ, ":", "{", "}", "}", SP, "x", "}">>,
   <<"{", DQ, "P", DQ, ":", DQ, "y", SQ, "s", DQ, ",", "}">>,
   <<"{", DQ, "P", DQ, ":">>,
   <<"{", "x", "}">>, <<"x", "}", SP, "{">>,
   <<"{", DQ, "O", DQ, ":", "1", "}">>,
   <<"{", DQ, "P", DQ, ":", "{", "}", ",", DQ, "O", DQ, ":", "0", "}">>}

Bodies == {JSONStringify(v) : v \in ConfigObjects} \cup OtherBodies

Wraps == {"bare", "json-fence", "plain-fence"}

\* the completion text around a body
Wrap(wrap, body) ==
  CASE wrap = "bare" -> body
    [] wrap = "json-fence" ->
         <<"x", ":", NL, Fence, JsonLabel, NL>> \o body \o <<NL, Fence, NL, "x">>
    [] wrap = "plain-fence" -> <<Fence, NL>> \o body \o <<NL, Fence>>

\* ------------------------------------------------------------------------
\* State
\* ------------------------------------------------------------------------
VARIABLES
  pc,         \* "idle", "awaiting" (messages.create pending), "done"
  policy,     \* "permissive" or "strict": which client is under test
  method,     \* "analyzeCodebase" or "generateFromIdea"
  calls,      \* number of messages.create calls issued by the client
  body,       \* the JSON-like text the completion was built around
  wrap,       \* how the completion was built around the body
  text,       \* the raw completion
  extracted,  \* the string extractJson returned
  outcome,    \* "none", "return" or "throw"
  result,     \* the returned string
  error,      \* message of the thrown error, "none" otherwise
  failures,   \* validation failures carried by a QualityError
  trace,      \* the steps of the pipeline, in order
  files,      \* the configuration files written to the project
  generated,  \* the GeneratedFiles that FileGenerator.generate returned
  hooksConfig, \* the content of .claude/hooks/config.json
  claudeMd,   \* the content of CLAUDE.md
  progress,   \* the ProgressTracker: steps, animationInterval, animationDots
  profile     \* the answers given to startInteractiveSetup

vars == <<pc, policy, method, calls, body, wrap, text, extracted, outcome,
          result, error, failures, trace, files, generated, hooksConfig, claudeMd,
          progress, profile>>

Methods == {"analyzeCodebase", "generateFromIdea"}
Policies == {"permissive", "strict"}

Init ==
  /\ pc = "idle"
  /\ policy \in Policies
  /\ method = "none"
  /\ calls = 0
  /\ body = << >>
  /\ wrap = "none"
  /\ text = << >>
  /\ extracted = << >>
  /\ outcome = "none"
  /\ result = << >>
  /\ error = "none"
  /\ failures = << >>
  /\ trace = << >>
  /\ files = {}
  /\ generated = << >>
  /\ hooksConfig = << >>
  /\ claudeMd = << >>
  /\ progress = << >>
  /\ profile = << >>

\* analyzeCodebase / generateFromIdea up to the await of messages.create
Call(m) ==
  /\ pc \in {"idle", "done"}
  /\ calls < MaxCalls
  /\ pc' = "awaiting"
  /\ method' = m
  /\ calls' = calls + 1
  /\ body' = << >>
  /\ wrap' = "none"
  /\ text' = << >>
  /\ extracted' = << >>
  /\ outcome' = "none"
  /\ result' = << >>
  /\ error' = "none"
  /\ failures' = << >>
  /\ trace' = << >>
  /\ UNCHANGED <<policy, files, generated, hooksConfig, claudeMd, progress, profile>>

\* the method ends as h says
Settle(t, h) ==
  /\ pc' = "done"
  /\ text' = t
  /\ extracted' = h.extracted
  /\ outcome' = h.outcome
  /\ result' = h.result
  /\ error' = h.error
  /\ failures' = h.failures
  /\ trace' = h.trace
  /\ UNCHANGED <<policy, files, generated, hooksConfig, claudeMd, progress, profile, method, calls>>

\* the rest of the method once the API call resolved with the text t
Finish(t) == Settle(t, Handle(method, policy, t))

\* the API call resolves with a text block
Resolve ==
  /\ pc = "awaiting"
  /\ \E b \in Bodies, w \in Wraps :
       /\ body' = b
       /\ wrap' = w
       /\ Finish(Wrap(w, b))

\* the API call resolves with a first block that is not text: text is ''
ResolveNonText ==
  /\ pc = "awaiting"
  /\ body' = << >>
  /\ wrap' = "none"
  /\ Finish(<< >>)

\* Reject that issues the call again
RejectRetried ==
  /\ pc = "awaiting"
  /\ calls < MaxCalls
  /\ calls' = calls + 1
  /\ UNCHANGED <<pc, policy, files, generated, hooksConfig, claudeMd, progress, profile, method, body, wrap, text, extracted, outcome, result, error,
                 failures, trace>>

\* the API call rejects: the rejection propagates to the caller
Reject ==
  /\ pc = "awaiting"
  /\ pc' = "done"
  /\ outcome' = "throw"
  /\ error' = "API error"
  /\ UNCHANGED <<policy, files, generated, hooksConfig, claudeMd, progress, profile, method, calls, body, wrap, text, extracted, result, failures, trace>>

Next ==
  \/ \E m \in Methods : Call(m)
  \/ Resolve
  \/ ResolveNonText
  \/ Reject

Spec == Init /\ [][Next]_vars

\* ------------------------------------------------------------------------
\* extractJson on its own: the inputs are drawn in the initial state, the
\* one action applies the function
\* ------------------------------------------------------------------------
MaxProse == 2

ProseChars == {"x", "{", "}", NL}

RECURSIVE SeqsUpTo(_, _)
\* the sequences over chars of length at most n
SeqsUpTo(chars, n) ==
  IF n = 0 THEN {<< >>}
  ELSE LET shorter == SeqsUpTo(chars, n - 1)
       IN shorter \cup {Append(q, c) : q \in shorter, c \in chars}

Prose == SeqsUpTo(ProseChars, MaxProse)

\* well-formed JSON objects: empty, nested three deep, spread over lines,
\* and with an apostrophe, a colon, a brace and a fence inside a string
FencedObjects ==
  {<<"{", "}">>,
   <<"{", DQ, "a", DQ, ":", "{", DQ, "b", DQ, ":", "{", DQ, "c", DQ, ":", "1", "}", "}", "}">>,
   <<"{", NL, SP, DQ, "P", DQ, ":", SP, "[", "]", ",", NL, SP, DQ, "R", DQ, ":", SP, "{", "}", NL, "}">>,
   <<"{", DQ, "P", DQ, ":", DQ, "y", SQ, "s", SP, "x", ":", SP, "{", Fence, DQ, "}">>}

Pads == {<< >>, <<SP>>, <<NL, SP>>}

\* prose, a fence labelled json on its own line, the object, the closing
\* fence on its own line, prose
LabelledFence(pre, headPad, pad, object, post) ==
  pre \o <<Fence, JsonLabel>> \o headPad \o <<NL>> \o pad \o object \o pad
      \o <<NL>> \o headPad \o <<Fence>> \o post

ExtractInit ==
  /\ pc = "input"
  /\ policy = "none"
  /\ method = "none"
  /\ calls = 0
  /\ wrap = "json-fence"
  /\ \E pre \in Prose, post \in Prose, object \in FencedObjects, pad \in Pads :
       /\ body = object
       /\ text = LabelledFence(pre, IF pad = << >> THEN << >> ELSE <<SP>>, pad, object, post)
  /\ extracted = << >>
  /\ outcome = "none"
  /\ result = << >>
  /\ error = "none"
  /\ failures = << >>
  /\ trace = << >>
  /\ files = {}
  /\ generated = << >>
  /\ hooksConfig = << >>
  /\ claudeMd = << >>
  /\ progress = << >>
  /\ profile = << >>

\* one call of extractJson
ExtractStep ==
  /\ pc = "input"
  /\ pc' = "extracted"
  /\ extracted' = extractJson(text)
  /\ UNCHANGED <<policy, files, generated, hooksConfig, claudeMd, progress, profile, method, calls, body, wrap, text, outcome, result, error,
                 failures, trace>>

ExtractNext == ExtractStep

ExtractSpec == ExtractInit /\ [][ExtractNext]_vars

\* C10: for a text holding one well-formed JSON object in a fence labelled
\* json (the opening fence line, the object, the closing fence on a line of
\* its own), with any prose before and after the fence, extractJson
\* returns exactly the object text, trimmed of surrounding white space.
C10_LabelledFenceYieldsObject ==
  (pc = "extracted" /\ wrap = "json-fence") => extracted = body

C10_Witness ==
  /\ pc = "extracted" /\ wrap = "json-fence"
  /\ Len(body) > 2
  /\ Includes(SubStr(text, 1, 2), "{")
  /\ text[Len(text)] = "}"
  /\ extracted = body

\* ------------------------------------------------------------------------
\* Properties of the pipeline
\* ------------------------------------------------------------------------
\* the handler ran to its end on a completion (the API call did not reject)
Handled == pc = "done" /\ trace # << >>

Returned == Handled /\ outcome = "return"

ParsedCandidate == JSONParse(extracted).v

ParsedResult == JSONParse(result).v

\* all four required keys, agents and commands arrays, claudeRules an object
WellTypedConfig(v) ==
  /\ v.t = "object"
  /\ \A i \in 1..Len(RequiredFields) : HasOwnProperty(v, RequiredFields[i])
  /\ IsArray(GetProp(v, Key(recommendedAgents)))
  /\ IsArray(GetProp(v, Key(recommendedCommands)))
  /\ GetProp(v, Key(claudeRules)).t = "object"

QualityErrorMessage == "Claude analysis does not meet quality standards"

\* C1: whenever analyzeCodebase or generateFromIdea returns a string, the
\* string parses to an object with the four required keys, agents and
\* commands being arrays and claudeRules an object.
C1_ReturnedStringIsWellTypedConfig ==
  Returned => (Parses(result) /\ WellTypedConfig(ParsedResult))

\* every rule category of a configuration is a non-empty array
RulesPopulated(rules) ==
  /\ rules.t = "object"
  /\ \A i \in 1..Len(RuleSubKeys) :
       LET list == GetProp(rules, RuleSubKeys[i])
       IN IsArray(list) /\ Len(list.e) > 0

C3_StrictParseFailureThrows ==
  (Handled /\ policy = "strict" /\ ~Parses(extracted))
    => /\ outcome = "throw"
       /\ error = "Failed to extract valid JSON"
       /\ result = << >>

C3_Witness ==
  /\ Handled /\ policy = "strict" /\ method = "analyzeCodebase"
  /\ text = <<"x", SP, "x">>
  /\ outcome = "throw"

\* the failures of the given kind that name the field
FailuresNaming(kind, field) ==
  {i \in 1..Len(failures) : failures[i].kind = kind /\ failures[i].field = field}

\* C4: under the strict policy, a parseable completion that lacks required
\* top-level keys fails with a QualityError whose failure list has one
\* entry naming each missing key; nothing is returned, no default is made.
C4_StrictMissingKeysQualityError ==
  (Handled /\ policy = "strict" /\ Parses(extracted) /\ Len(MissingFields(ParsedCandidate)) > 0)
    => /\ outcome = "throw"
       /\ error = QualityErrorMessage
       /\ result = << >>
       /\ \A i \in 1..Len(RequiredFields) :
            Cardinality(FailuresNaming("missing", RequiredFields[i]))
              = IF HasOwnProperty(ParsedCandidate, RequiredFields[i]) THEN 0 ELSE 1

C4_Witness ==
  /\ Handled /\ policy = "strict" /\ outcome = "throw"
  /\ ParsedCandidate.t = "object"
  /\ HasOwnProperty(ParsedCandidate, Key(projectAnalysis))
  /\ Len(MissingFields(ParsedCandidate)) = 3
  /\ Len(failures) = 3

\* the candidate has every required key
Complete == Parses(extracted) /\ Len(MissingFields(ParsedCandidate)) = 0

PermissiveObject ==
  Handled /\ policy = "permissive" /\ Parses(extracted) /\ ParsedCandidate.t = "object"

\* what the claim expects in place of a missing field
InjectedDefault(field) ==
  CASE field = Key(recommendedAgents) -> JArr(<< >>)
    [] field = Key(recommendedCommands) -> JArr(<< >>)
    [] field = Key(claudeRules) -> DefaultClaudeRules

\* each missing agents / commands list is [] and a missing claudeRules is
\* the default rule set
MissingAreDefaulted ==
  \A f \in {Key(recommendedAgents), Key(recommendedCommands), Key(claudeRules)} :
    ~HasOwnProperty(ParsedCandidate, f) => GetProp(ParsedResult, f) = InjectedDefault(f)

\* C6: under the permissive policy, validation of a JSON object
\* with required keys missing never fails, each missing agents / commands
\* list is returned as [] and a missing claudeRules as the default rule
\* set, and every supplied top-level field is returned unchanged.
C6_SuppliedFieldsUnchanged ==
  PermissiveObject
    => /\ outcome = "return"
       /\ Parses(result)
       /\ MissingAreDefaulted
       /\ \A i \in 1..Len(ParsedCandidate.e) :
            GetProp(ParsedResult, ParsedCandidate.e[i].k) = ParsedCandidate.e[i].v

\* C7: when all four required keys are present with the right container
\* types, the returned configuration has every expected claudeRules
\* sub-key, the absent ones filled with the default rule lists.
C7_RuleSubKeysFilled ==
  (Returned /\ Complete /\ WellTypedConfig(ParsedCandidate))
    => /\ Parses(result)
       /\ \A i \in 1..Len(RuleSubKeys) :
            LET given == GetProp(GetProp(ParsedCandidate, Key(claudeRules)), RuleSubKeys[i])
                got == GetProp(GetProp(ParsedResult, Key(claudeRules)), RuleSubKeys[i])
            IN got = IF given = Undefined
                     THEN GetProp(DefaultClaudeRules, RuleSubKeys[i])
                     ELSE given

InTrace(stage) == \E i \in 1..Len(trace) : trace[i] = stage

\* C8: the keyword-scan fallback is entered only under the permissive
\* policy and only when neither the direct parse nor repair produced
\* parseable JSON; a candidate that parses never leads to the fallback.
C8_FallbackOnlyAfterParseFailure ==
  (Handled /\ InTrace("Fallback")) => (policy = "permissive" /\ ~Parses(extracted))

Transitions ==
  {<<"Start", "DirectParse">>,
   <<"DirectParse", "Validate">>, <<"DirectParse", "Repair">>,
   <<"Repair", "Validate">>, <<"Repair", "Fallback">>, <<"Repair", "Fail">>,
   <<"Validate", "Return">>, <<"Validate", "PolicyBranch">>,
   <<"PolicyBranch", "SynthesizeDefaults">>, <<"PolicyBranch", "Fail">>,
   <<"SynthesizeDefaults", "Return">>,
   <<"Fallback", "Return">>}

\* C9: every run ends in exactly one of Return and Fail, follows only the
\* transitions of the state machine, enters Validate only after a
\* successful parse and visits no state twice.
C9_RunFollowsStateMachine ==
  Handled
    => /\ trace[1] = "Start"
       /\ trace[Len(trace)] \in {"Return", "Fail"}
       /\ trace[Len(trace)] = (IF outcome = "return" THEN "Return" ELSE "Fail")
       /\ \A i \in 1..(Len(trace) - 1) :
            /\ <<trace[i], trace[i + 1]>> \in Transitions
            /\ trace[i] \notin {"Return", "Fail"}
       /\ \A i, k \in 1..Len(trace) : trace[i] = trace[k] => i = k
       /\ InTrace("Validate") => Parses(extracted)

\* ------------------------------------------------------------------------
\* extractJson on texts that hold several candidates: a fence labelled
\* json, a fence without a label and bare braces, in any order, with the
\* same prose before, between and after them
\* ------------------------------------------------------------------------
ObjectA == <<"{", DQ, "a", DQ, ":", "1", "}">>
ObjectB == <<"{", DQ, "b", DQ, ":", "0", "}">>
ObjectC == <<"{", DQ, "c", DQ, ":", "T", "}">>
Garbage == <<"x", SP, "x">>
\* an unquoted key and a trailing comma: parses once repaired
Repairable == <<"{", "a", ":", "1", ",", "}">>

LabelledContents == {ObjectA, Garbage, Repairable}
UnlabelledContents == {ObjectB, Garbage}

Kinds == {"L", "U", "B"}

\* the orders in which one, two or three different candidates can appear
Orders ==
  {o \in SeqsUpTo(Kinds, 3) :
     o # << >> /\ \A i, k \in 1..Len(o) : o[i] = o[k] => i = k}

Segment(kind, l, u) ==
  CASE kind = "L" -> <<Fence, JsonLabel, NL>> \o l \o <<NL, Fence>>
    [] kind = "U" -> <<Fence, NL>> \o u \o <<NL, Fence>>
    [] kind = "B" -> ObjectC

RECURSIVE MixedText(_, _, _, _)
MixedText(order, p, l, u) ==
  IF order = << >> THEN p
  ELSE p \o Segment(Head(order), l, u) \o MixedText(Tail(order), p, l, u)

\* body is the content of the labelled fence, or "none" without one
MixedInit ==
  /\ pc = "input"
  /\ policy = "none"
  /\ method = "none"
  /\ calls = 0
  /\ wrap = "mixed"
  /\ \E order \in Orders, p \in Prose, l \in LabelledContents, u \in UnlabelledContents :
       /\ body = IF \E i \in 1..Len(order) : order[i] = "L" THEN l ELSE <<"none">>
       /\ text = MixedText(order, p, l, u)
  /\ extracted = << >>
  /\ outcome = "none"
  /\ result = << >>
  /\ error = "none"
  /\ failures = << >>
  /\ trace = << >>
  /\ files = {}
  /\ generated = << >>
  /\ hooksConfig = << >>
  /\ claudeMd = << >>
  /\ progress = << >>
  /\ profile = << >>

\* extractJson returned as run says; trace keeps the pattern that supplied
\* the result and the return statement reached
ExtractedAs(run) ==
  /\ pc' = "extracted"
  /\ extracted' = run.out
  /\ trace' = <<run.strategy, run.via>>
  /\ UNCHANGED <<policy, files, generated, hooksConfig, claudeMd, progress, profile, method, calls, body, wrap, text, outcome, result, error, failures>>

\* one call of extractJson, its path recorded
ExtractTagged ==
  /\ pc = "input"
  /\ ExtractedAs(ExtractRun(text))

MixedNext == ExtractTagged

MixedSpec == MixedInit /\ [][MixedNext]_vars

\* the candidate of a match parses, as it is, after repairJson, or after
\* repairJson of its first brace-delimited span
YieldsParseable(m) ==
  /\ m.found
  /\ \/ Parses(Extracted(m))
     \/ (~repairJson(Extracted(m)).isNull /\ Parses(repairJson(Extracted(m)).str))
     \/ /\ LazyBraceMatch(Extracted(m)).found
        /\ ~repairJson(LazyBraceMatch(Extracted(m)).m0).isNull
        /\ Parses(repairJson(LazyBraceMatch(Extracted(m)).m0).str)

\* the first of the three patterns of jsonMatch that matches the text
WinningMatch ==
  IF FenceMatch(text, TRUE).found THEN FenceMatch(text, TRUE)
  ELSE IF FenceMatch(text, FALSE).found THEN FenceMatch(text, FALSE)
  ELSE GreedyBraceMatch(text)

MaxText == 5

TextChars == {"x", "{", "}", NL, Fence, JsonLabel}

AnyInit ==
  /\ pc = "input"
  /\ policy = "none"
  /\ method = "none"
  /\ calls = 0
  /\ wrap = "any"
  /\ body = << >>
  /\ text \in SeqsUpTo(TextChars, MaxText)
  /\ extracted = << >>
  /\ outcome = "none"
  /\ result = << >>
  /\ error = "none"
  /\ failures = << >>
  /\ trace = << >>
  /\ files = {}
  /\ generated = << >>
  /\ hooksConfig = << >>
  /\ claudeMd = << >>
  /\ progress = << >>
  /\ profile = << >>

AnyNext == ExtractTagged

AnySpec == AnyInit /\ [][AnyNext]_vars

\* the return statements of extractJson
ReturnStatements ==
  {"direct", "repaired", "object-repaired", "last-resort-repaired", "last-resort-raw", "text"}

\* no fence and no brace-delimited span in the text
NothingMatches ==
  /\ ~FenceMatch(text, TRUE).found
  /\ ~FenceMatch(text, FALSE).found
  /\ ~GreedyBraceMatch(text).found
  /\ ~LastResortMatch(text).found

\* C12: extractJson ends in one of its return statements on every text,
\* the empty one included, with a string; when no pattern matches, the
\* string is the original text, unchanged.
C12_ExtractIsTotal ==
  (pc = "extracted" /\ wrap = "any")
    => /\ trace[2] \in ReturnStatements
       /\ extracted \in Seq(TextChars \cup {DQ})
       /\ NothingMatches => (extracted = text /\ trace = <<"none", "text">>)

\* braces, but no span from an opening to a closing one
C12_Witness ==
  /\ pc = "extracted" /\ wrap = "any"
  /\ text = <<"}", "x", "{">>
  /\ NothingMatches
  /\ extracted = text

\* ------------------------------------------------------------------------
\* extractJson on a nested object between prose, bare or in a fence
\* ------------------------------------------------------------------------
\* well-formed objects with objects inside: two and three deep, side by
\* side, and three deep with an apostrophe in a string
NestedObjects ==
  {<<"{", DQ, "a", DQ, ":", "{", DQ, "b", DQ, ":", "1", "}", "}">>,
   <<"{", DQ, "a", DQ, ":", "{", DQ, "b", DQ, ":", "{", DQ, "c", DQ, ":", "1", "}", "}", "}">>,
   <<"{", DQ, "a", DQ, ":", "{", "}", ",", DQ, "b", DQ, ":", "{", DQ, "c", DQ, ":", "0", "}", "}">>,
   <<"{", DQ, "a", DQ, ":", "{", DQ, "b", DQ, ":", "{", DQ, "c", DQ, ":", DQ, "y", SQ, "s", DQ, "}", "}", "}">>}

NestedWraps == {"nested-bare", "nested-json-fence", "nested-plain-fence"}

\* the prose before the object holds no brace: the first opening brace of
\* the text is the object's
NestedText(w, pre, object, post) ==
  CASE w = "nested-bare" -> pre \o <<SP>> \o object \o <<SP>> \o post
    [] w = "nested-json-fence" ->
         pre \o <<NL, Fence, JsonLabel, NL>> \o object \o <<NL, Fence, NL>> \o post
    [] w = "nested-plain-fence" ->
         pre \o <<NL, Fence, NL>> \o object \o <<NL, Fence, NL>> \o post

NestedInit ==
  /\ pc = "input"
  /\ policy = "none"
  /\ method = "none"
  /\ calls = 0
  /\ wrap \in NestedWraps
  /\ body \in NestedObjects
  /\ \E pre \in SeqsUpTo({"x", ":", NL}, MaxProse), post \in Prose :
       text = NestedText(wrap, pre, body, post)
  /\ extracted = << >>
  /\ outcome = "none"
  /\ result = << >>
  /\ error = "none"
  /\ failures = << >>
  /\ trace = << >>
  /\ files = {}
  /\ generated = << >>
  /\ hooksConfig = << >>
  /\ claudeMd = << >>
  /\ progress = << >>
  /\ profile = << >>

NestedSpec == NestedInit /\ [][ExtractTagged]_vars

\* C13: for a well-formed object with nested objects, of any depth,
\* between prose before and after it, bare or inside a fence, extractJson
\* returns exactly the complete outermost object: not cut at the closing
\* brace of an inner object, not extended into the prose after it.
C13_NestedObjectExact ==
  (pc = "extracted" /\ wrap \in NestedWraps) => extracted = body

\* ------------------------------------------------------------------------
\* The permissive client on completions that are one near-JSON object
\* ------------------------------------------------------------------------
\* a key as JSON writes it, bare, in single quotes, in doubled quotes
KeyForms ==
  {<<DQ, "P", DQ>>, <<"P">>, <<SQ, "P", SQ>>, <<DQ, DQ, "P", DQ, DQ>>}

\* values: a number, strings (plain, with an apostrophe, with a word and a
\* colon as in a URL or a time), arrays and an object, two of them with a
\* trailing comma of their own
ValueForms ==
  {<<"1">>, <<DQ, "x", DQ>>, <<DQ, "y", SQ, "s", DQ>>, <<DQ, "h", ":", "x", DQ>>,
   <<"[", "]">>, <<"[", "1", ",", "]">>, <<"{", DQ, "b", DQ, ":", "1", ",", SP, "}">>}

NearObject(key, value, comma) == <<"{">> \o key \o <<":">> \o value \o comma \o <<"}">>

NearObjects ==
  {NearObject(k, v, c) : k \in KeyForms, v \in ValueForms, c \in {<< >>, <<",">>, <<",", NL>>}}

\* the call is pending; the completion will be the near-object, bare
NearInit ==
  /\ pc = "awaiting"
  /\ policy = "permissive"
  /\ method \in Methods
  /\ calls = 1
  /\ body \in NearObjects
  /\ wrap = "bare"
  /\ text = << >>
  /\ extracted = << >>
  /\ outcome = "none"
  /\ result = << >>
  /\ error = "none"
  /\ failures = << >>
  /\ trace = << >>
  /\ files = {}
  /\ generated = << >>
  /\ hooksConfig = << >>
  /\ claudeMd = << >>
  /\ progress = << >>
  /\ profile = << >>

\* the API call resolves with the text chosen for it
ResolveBody ==
  /\ pc = "awaiting"
  /\ UNCHANGED <<body, wrap>>
  /\ Finish(Wrap(wrap, body))

NearSpec == NearInit /\ [][ResolveBody]_vars

\* the candidate after (a), after (a)-(b), (a)-(c), (a)-(d), and after the
\* brace re-scan (e)
RepairPrefixes(c) ==
  <<StripTrailingCommas(c, 1),
    ReplaceSingleQuotes(StripTrailingCommas(c, 1)),
    QuoteKeys(ReplaceSingleQuotes(StripTrailingCommas(c, 1)), 1),
    CollapseDoubleQuotes(QuoteKeys(ReplaceSingleQuotes(StripTrailingCommas(c, 1)), 1), 1),
    repairJson(c).str>>

\* C14: repair applies (a) comma stripping, (b) quote replacement, (c) key
\* quoting, (d) double-quote collapsing, (e) brace re-scan cumulatively and
\* stops at the first prefix after which the candidate parses: what
\* extractJson returns for a candidate that does not parse as it is, is
\* the text after the shortest parsing prefix, so a candidate valid after
\* (a) alone comes back without (b)-(e) applied.
C14_RepairStopsAtFirstParsingPrefix ==
  (pc = "done" /\ wrap = "bare" /\ ~Parses(body))
    => \A i \in 1..5 :
         (/\ Parses(RepairPrefixes(body)[i])
          /\ \A j \in 1..(i - 1) : ~Parses(RepairPrefixes(body)[j]))
           => extracted = RepairPrefixes(body)[i]

\* C15: for an object text whose only defect is trailing commas before a
\* closing brace or bracket, string values with an apostrophe or with a
\* word and a colon included, the permissive client returns a configuration
\* equal to the one it returns for the same text with those commas removed.
C15_TrailingCommasRepaired ==
  (pc = "done" /\ wrap = "bare" /\ ~Parses(body) /\ Parses(StripTrailingCommas(body, 1)))
    => /\ outcome = "return"
       /\ JSONParse(result).v
            = JSONParse(Handle(method, policy, StripTrailingCommas(body, 1)).result).v

\* ------------------------------------------------------------------------
\* The permissive client on serialized valid configurations
\* ------------------------------------------------------------------------
\* string contents: plain, with an apostrophe, with a word and a colon,
\* with braces and a fence, with a comma before a brace
StringForms ==
  {<<"x">>, <<"y", SQ, "s">>, <<"h", ":", SP, "x">>, <<"}", SP, "{", Fence>>, <<"a", ",", "}">>}

\* all four required keys with the types of the schema; recommendedHooks
\* absent or an object
ValidConfigs ==
  {JObj(<<Entry(Key(projectAnalysis), JObj(<<Entry(<<"t">>, JStr(str))>>)),
          Entry(Key(recommendedAgents), JArr(EmptyObjects(n))),
          Entry(Key(recommendedCommands), JArr(<< >>))>>
        \o Member(recommendedHooks, h)
        \o <<Entry(Key(claudeRules), r)>>) :
     str \in StringForms, n \in 0..MaxAgents, h \in {Absent, JObj(<< >>)},
     r \in {c \in RulesChoices : c.t = "object"}}

\* the call is pending; the completion will be JSON.stringify(c), bare or
\* in a fence
RoundTripInit ==
  /\ pc = "awaiting"
  /\ policy = "permissive"
  /\ method \in Methods
  /\ calls = 1
  /\ wrap \in Wraps
  /\ \E c \in ValidConfigs : body = JSONStringify(c)
  /\ text = << >>
  /\ extracted = << >>
  /\ outcome = "none"
  /\ result = << >>
  /\ error = "none"
  /\ failures = << >>
  /\ trace = << >>
  /\ files = {}
  /\ generated = << >>
  /\ hooksConfig = << >>
  /\ claudeMd = << >>
  /\ progress = << >>
  /\ profile = << >>

RoundTripSpec == RoundTripInit /\ [][ResolveBody]_vars

\* C16: for a valid configuration c, the client given JSON.stringify(c),
\* bare or in a fence, returns a configuration deeply equal to c: the
\* candidate is the serialized text, no repair is applied, no field is
\* added, dropped or changed.
C16_RoundTrip ==
  pc = "done"
    => /\ outcome = "return"
       /\ extracted = body
       /\ ~InTrace("Repair")
       /\ \E c \in ValidConfigs : body = JSONStringify(c) /\ JSONParse(result).v = c

\* a configuration with braces and a fence inside a string, sent bare, came
\* back as it was
C16_Witness ==
  /\ pc = "done" /\ wrap = "bare"
  /\ Includes(body, Fence)
  /\ outcome = "return"
  /\ result = body
  /\ trace = <<"Start", "DirectParse", "Validate", "Return">>

\* ------------------------------------------------------------------------
\* repairJson on every short candidate over braces, commas, quotes, a word
\* and a colon
\* ------------------------------------------------------------------------
RepairChars == {"{", "}", ",", DQ, SQ, "a", ":"}

RepairInit ==
  /\ pc = "input"
  /\ policy = "none"
  /\ method = "none"
  /\ calls = 0
  /\ wrap = "candidate"
  /\ body = << >>
  /\ text \in SeqsUpTo(RepairChars, MaxText)
  /\ extracted = << >>
  /\ outcome = "none"
  /\ result = << >>
  /\ error = "none"
  /\ failures = << >>
  /\ trace = << >>
  /\ files = {}
  /\ generated = << >>
  /\ hooksConfig = << >>
  /\ claudeMd = << >>
  /\ progress = << >>
  /\ profile = << >>

\* one call of repairJson on the candidate; pc tells a string from null
RepairedAs(r) ==
  /\ pc' = IF r.isNull THEN "null" ELSE "repaired"
  /\ extracted' = r.str
  /\ UNCHANGED <<policy, files, generated, hooksConfig, claudeMd, progress, profile, method, calls, body, wrap, text, outcome, result, error,
                 failures, trace>>

RepairStep ==
  /\ pc = "input"
  /\ RepairedAs(repairJson(text))

RepairSpec == RepairInit /\ [][RepairStep]_vars

\* C17: repair is idempotent.  When repairJson returned a string for the
\* candidate, repairing that string again gives the same string; and each
\* transform (comma stripping, quote replacement, key quoting, double-quote
\* collapsing, brace re-scan) applied twice to the candidate gives what it
\* gives applied once.
C17_RepairIdempotent ==
  pc = "repaired"
    => /\ ~repairJson(extracted).isNull /\ repairJson(extracted).str = extracted
       /\ StripTrailingCommas(StripTrailingCommas(text, 1), 1) = StripTrailingCommas(text, 1)
       /\ ReplaceSingleQuotes(ReplaceSingleQuotes(text)) = ReplaceSingleQuotes(text)
       /\ QuoteKeys(QuoteKeys(text, 1), 1) = QuoteKeys(text, 1)
       /\ CollapseDoubleQuotes(CollapseDoubleQuotes(text, 1), 1) = CollapseDoubleQuotes(text, 1)
       /\ FirstCompleteObject(FirstCompleteObject(text).str) = FirstCompleteObject(text)

\* ------------------------------------------------------------------------
\* Two invocations on one client, interleaved in every order.  pc, method,
\* text, extracted, outcome, result, error, failures and trace hold one
\* value for each invocation; policy and calls belong to the client.
\* ------------------------------------------------------------------------
Invocations == {1, 2}

\* completions: empty, prose, a repairable object, null, an object with its
\* own hasOwnProperty, and a full configuration in a fence
TwiceTexts ==
  {<< >>, <<"x", SP, "x">>, <<"N">>,
   <<"{", DQ, "P", DQ, ":", "{", "}", ",", "}">>,
   <<"{", DQ, "O", DQ, ":", "1", "}">>,
   Wrap("json-fence",
        <<"{", DQ, "P", DQ, ":", "{", "}", ",", DQ, "A", DQ, ":", "[", "]", ",",
          DQ, "C", DQ, ":", "[", "]", ",", DQ, "R", DQ, ":", "{", "}", "}">>)}

TwiceInit ==
  /\ pc = <<"idle", "idle">>
  /\ policy \in Policies
  /\ method = <<"none", "none">>
  /\ calls = 0
  /\ body = << >>
  /\ wrap = "none"
  /\ text = <<<< >>, << >>>>
  /\ extracted = <<<< >>, << >>>>
  /\ outcome = <<"none", "none">>
  /\ result = <<<< >>, << >>>>
  /\ error = <<"none", "none">>
  /\ failures = <<<< >>, << >>>>
  /\ trace = <<<< >>, << >>>>
  /\ files = {}
  /\ generated = << >>
  /\ hooksConfig = << >>
  /\ claudeMd = << >>
  /\ progress = << >>
  /\ profile = << >>

\* invocation i: the method up to the await of messages.create
CallOf(i, m) ==
  /\ pc[i] = "idle"
  /\ pc' = [pc EXCEPT ![i] = "awaiting"]
  /\ method' = [method EXCEPT ![i] = m]
  /\ calls' = calls + 1
  /\ UNCHANGED <<policy, files, generated, hooksConfig, claudeMd, progress, profile, body, wrap, text, extracted, outcome, result, error,
                 failures, trace>>

\* SettleOf whose result tells how many calls the client had issued
SettleOfCounting(i, t, h) ==
  /\ pc' = [pc EXCEPT ![i] = "done"]
  /\ text' = [text EXCEPT ![i] = t]
  /\ extracted' = [extracted EXCEPT ![i] = h.extracted]
  /\ outcome' = [outcome EXCEPT ![i] = h.outcome]
  /\ result' = [result EXCEPT ![i] = IF calls > 1 THEN h.result \o <<SP>> ELSE h.result]
  /\ error' = [error EXCEPT ![i] = h.error]
  /\ failures' = [failures EXCEPT ![i] = h.failures]
  /\ trace' = [trace EXCEPT ![i] = h.trace]
  /\ UNCHANGED <<policy, files, generated, hooksConfig, claudeMd, progress, profile, method, calls, body, wrap>>

\* invocation i ends as h says
SettleOf(i, t, h) ==
  /\ pc' = [pc EXCEPT ![i] = "done"]
  /\ text' = [text EXCEPT ![i] = t]
  /\ extracted' = [extracted EXCEPT ![i] = h.extracted]
  /\ outcome' = [outcome EXCEPT ![i] = h.outcome]
  /\ result' = [result EXCEPT ![i] = h.result]
  /\ error' = [error EXCEPT ![i] = h.error]
  /\ failures' = [failures EXCEPT ![i] = h.failures]
  /\ trace' = [trace EXCEPT ![i] = h.trace]
  /\ UNCHANGED <<policy, files, generated, hooksConfig, claudeMd, progress, profile, method, calls, body, wrap>>

\* the API call of invocation i resolves with a text block
ResolveOf(i) ==
  /\ pc[i] = "awaiting"
  /\ \E t \in TwiceTexts : SettleOf(i, t, Handle(method[i], policy, t))

TwiceNext ==
  \E i \in Invocations :
    \/ \E m \in Methods : CallOf(i, m)
    \/ ResolveOf(i)

TwiceSpec == TwiceInit /\ [][TwiceNext]_vars

\* both invocations ended, with the same method on the same text
SameInput ==
  /\ pc = <<"done", "done">>
  /\ method[1] = method[2]
  /\ text[1] = text[2]

EqualResults ==
  /\ extracted[1] = extracted[2]
  /\ outcome[1] = outcome[2]
  /\ result[1] = result[2]
  /\ error[1] = error[2]
  /\ failures[1] = failures[2]

C19_NoRetry ==
  [][/\ (calls' = calls + 1 /\ pc \in {"idle", "done"} /\ pc' = "awaiting")
          \/ (calls' = calls /\ pc = "awaiting")
     /\ pc = "awaiting" => pc' = "done"
     /\ (pc = "awaiting" /\ error' = "API error")
          => (outcome' = "throw" /\ result' = << >> /\ trace' = << >>)]_vars

\* the second invocation was rejected: two calls in all, the error thrown
C19_Witness ==
  /\ pc = "done"
  /\ calls = 2
  /\ outcome = "throw"
  /\ error = "API error"

\* ------------------------------------------------------------------------
\* The main flow of the CLI: the client call, then FileGenerator.generate
\* ------------------------------------------------------------------------
NameKey == <<"n", "a">>

RECURSIVE Named(_)
\* n records with a name each: agents, or commands
Named(n) ==
  IF n = 0 THEN << >>
  ELSE Append(Named(n - 1), JObj(<<Entry(NameKey, JStr(<<<<"a", "b", "c", "d">>[n]>>))>>))

\* completions: configurations with 0..MaxAgents named agents and with
\* commands absent, empty or one, and two prose texts, the second one
\* with the keyword the fallback turns into an agent
CliBodies ==
  {JSONStringify(JObj(<<Entry(Key(projectAnalysis), JObj(<< >>)),
                        Entry(Key(recommendedAgents), JArr(Named(n)))>>
                      \o Member(recommendedCommands, c)
                      \o Member(recommendedHooks, h)
                      \o <<Entry(Key(claudeRules), JObj(<< >>))>>)) :
     n \in 0..MaxAgents, c \in {Absent, JArr(<< >>), JArr(Named(1))},
     h \in {Absent, JObj(<< >>)}}
  \cup {<<"x", SP, "x">>, <<"y", SP, "x">>}

CliInit ==
  /\ pc = "awaiting"
  /\ policy = "permissive"
  /\ method \in Methods
  /\ calls = 1
  /\ body \in CliBodies
  /\ wrap = "bare"
  /\ text = << >>
  /\ extracted = << >>
  /\ outcome = "none"
  /\ result = << >>
  /\ error = "none"
  /\ failures = << >>
  /\ trace = << >>
  /\ files = {}
  /\ generated = << >>
  /\ hooksConfig = << >>
  /\ claudeMd = << >>
  /\ progress = << >>
  /\ profile = << >>

\* ------------------------------------------------------------------------
\* ProgressTracker (the animated class of progress-tracker.ts).  progress
\* holds the tracker: steps (id, completed, active), animationInterval (0
\* for undefined, else the id of the running timer), animationDots, and
\* timers, the number of setInterval calls made so far.  trace holds the
\* last two events on the tracker.
\* ------------------------------------------------------------------------
MaxTimers == 3

\* the steps of the tracker's tests, and an id that names no step
StepIds == <<"step1", "step2", "step3">>

InvalidStep == "invalid-step"

\* constructor: every step not completed and not active, then the first
\* step active
NewTracker(ids) ==
  [steps |-> [i \in 1..Len(ids) |->
                [id |-> ids[i], completed |-> FALSE, active |-> i = 1]],
   animationInterval |-> 0,
   animationDots |-> 0,
   timers |-> 0]

\* steps.findIndex(s => s.id === stepId): the first index, 0 for JS's -1
FindIndex(steps, stepId) ==
  IF \E i \in 1..Len(steps) : steps[i].id = stepId
    THEN CHOOSE i \in 1..Len(steps) :
           /\ steps[i].id = stepId
           /\ \A j \in 1..(i - 1) : steps[j].id # stepId
    ELSE 0

stopAnimation(p) ==
  IF p.animationInterval # 0 THEN [p EXCEPT !.animationInterval = 0] ELSE p

\* setInterval on the tracker q, whose animation is stopped
SetInterval(q) ==
  [q EXCEPT !.timers = q.timers + 1, !.animationInterval = q.timers + 1]

startAnimation(p) == SetInterval(stopAnimation(p))

\* the body of complete for a step found at index i
CompleteAt(p, i) ==
  IF i + 1 <= Len(p.steps)
    THEN startAnimation(
           [p EXCEPT !.steps[i].completed = TRUE,
                     !.steps[i].active = FALSE,
                     !.steps[i + 1].active = TRUE])
    ELSE stopAnimation(
           [p EXCEPT !.steps[i].completed = TRUE,
                     !.steps[i].active = FALSE])

\* complete that takes an unknown id for the first step
completeFirstWhenUnknown(p, stepId) ==
  IF FindIndex(p.steps, stepId) # 0
    THEN CompleteAt(p, FindIndex(p.steps, stepId))
    ELSE CompleteAt(p, 1)

complete(p, stepId) ==
  IF FindIndex(p.steps, stepId) # 0
    THEN CompleteAt(p, FindIndex(p.steps, stepId))
    ELSE p

reset(p) ==
  [stopAnimation(p) EXCEPT
     !.steps = [i \in 1..Len(p.steps) |->
                  [p.steps[i] EXCEPT !.completed = FALSE, !.active = (i = 1)]]]

\* the interval callback: animationDots cycles through 0, 1, 2
AnimationTick(p) == [p EXCEPT !.animationDots = (p.animationDots + 1) % 3]

AllCompleted(p) == \A i \in 1..Len(p.steps) : p.steps[i].completed

ActiveSteps(p) == {i \in 1..Len(p.steps) : p.steps[i].active}

\* trace after one more event
LastTwo(events, event) ==
  IF Len(events) < 2 THEN Append(events, event) ELSE <<events[2], event>>

RECURSIVE CompletedAll(_, _, _)
\* complete(ids[i]), complete(ids[i + 1]), ... in that order
CompletedAll(p, ids, i) ==
  IF i > Len(ids) THEN p ELSE CompletedAll(complete(p, ids[i]), ids, i + 1)

\* if (progress) { progress.stopAnimation(); } in the catch block of main
StoppedIfTracker(p) == IF DOMAIN p = {} THEN p ELSE stopAnimation(p)

\* catch block of main: the client call threw, process.exit(1)
MainCatch ==
  /\ pc = "done"
  /\ outcome = "throw"
  /\ pc' = "exit1"
  /\ progress' = StoppedIfTracker(progress)
  /\ UNCHANGED <<policy, method, calls, body, wrap, text, extracted, outcome, result,
                 error, failures, trace, files, generated, hooksConfig, claudeMd, profile>>

\* recommendations = JSON.parse(analysis), or the fallback structure of
\* main when that throws
Recommendations(analysis) ==
  IF Parses(analysis) THEN JSONParse(analysis).v
  ELSE JObj(<<Entry(Key(projectAnalysis), JObj(<< >>)),
              Entry(Key(recommendedAgents), JArr(<< >>)),
              Entry(Key(recommendedCommands), JArr(<< >>)),
              Entry(Key(recommendedHooks), JObj(<< >>)),
              Entry(Key(claudeRules), JObj(<< >>))>>)

\* list && Array.isArray(list) && list.length > 0
NonEmptyArray(list) == IsArray(list) /\ Len(list.e) > 0

\* the files the loop over agents, or commands, writes: one for each
\* record with a name
NamedFiles(kind, list) ==
  {[kind |-> kind, name |-> GetProp(list.e[i].v, NameKey).s] :
     i \in {k \in 1..Len(list.e) : ~Falsy(GetProp(list.e[k].v, NameKey))}}

\* names of the hooks configuration: hook types, and the keys of a hook
Stop == "Stop"
PostToolUse == "PostToolUse"
PreToolUse == "PreToolUse"
matcher == "matcher"
description == "description"
command == "command"
hooks == "hooks"
type == "type"

\* hooks: [{ type: 'command', command: hook.command }]
CommandHooks(hook) ==
  Entry(Key(hooks),
        JArr(<<JObj(<<Entry(Key(type), JStr(<<command>>)),
                      Entry(Key(command), GetProp(hook, Key(command)))>>)>>))

\* the callback of hooks.map in generateHooksConfig
HookConfig(hookType, hook) ==
  IF hookType = Key(PostToolUse) /\ ~Falsy(GetProp(hook, Key(matcher)))
    THEN JObj(<<Entry(Key(matcher), GetProp(hook, Key(matcher))),
                Entry(Key(description), GetProp(hook, Key(description))),
                CommandHooks(hook)>>)
  ELSE IF hookType = Key(Stop)
    THEN JObj(<<Entry(Key(description), GetProp(hook, Key(description))),
                CommandHooks(hook)>>)
  ELSE JObj(<<Entry(Key(description),
                    IF Falsy(GetProp(hook, Key(description)))
                      THEN JStr(<<"Automated verification hook">>)
                      ELSE GetProp(hook, Key(description))),
              CommandHooks(hook)>>)

\* Object.entries of an object, or of an array (keys "0", "1", ...)
ObjectEntries(value) ==
  IF value.t = "array"
    THEN [i \in 1..Len(value.e) |-> Entry(<<<<"0", "1", "2", "3">>[i]>>, value.e[i].v)]
    ELSE value.e

RECURSIVE HookTypesFrom(_, _, _)
\* the loop of generateHooksConfig from entry i on, config being
\* hooksConfig.hooks so far
HookTypesFrom(entries, i, config) ==
  IF i > Len(entries) THEN config
  ELSE HookTypesFrom(entries, i + 1,
         IF NonEmptyArray(entries[i].v)
           THEN SetKey(config, entries[i].k,
                       JArr([j \in 1..Len(entries[i].v.e) |->
                               HookConfig(entries[i].k, entries[i].v.e[j].v)]))
           ELSE config)

\* the Stop list written when the recommendations supply none
DefaultStop ==
  JArr(<<JObj(<<Entry(Key(description),
                      JStr(<<"Verify implementation with real testing after task completion">>)),
                Entry(Key(hooks),
                      JArr(<<JObj(<<Entry(Key(type), JStr(<<command>>)),
                                    Entry(Key(command), JStr(<<"echo REMINDER">>))>>)>>))>>)>>)

\* WithDefaultStop that adds nothing
WithoutDefaultStop(config) == config

\* if (!hooksConfig.hooks.Stop) hooksConfig.hooks.Stop = [...]
WithDefaultStop(config) ==
  IF KeyIndex(config, Key(Stop)) = 0 THEN SetKey(config, Key(Stop), DefaultStop)
  ELSE config

\* generateHooksConfig: hooksConfig.hooks, as the entries of an object
generateHooksConfig(recommended) ==
  WithDefaultStop(HookTypesFrom(ObjectEntries(recommended), 1, << >>))

\* generateHooksConfig throws: a property of a null hook is read
HookReadThrows(recommended) ==
  \E i \in 1..Len(ObjectEntries(recommended)) :
    /\ NonEmptyArray(ObjectEntries(recommended)[i].v)
    /\ \E j \in 1..Len(ObjectEntries(recommended)[i].v.e) :
         ObjectEntries(recommended)[i].v.e[j].v.t = "null"

\* the hooks part of generate: the configuration written to
\* .claude/hooks/config.json and reported, from generateHooksConfig or,
\* when the recommendations hold no object or the function throws, the
\* default
WrittenHooks(recommended) ==
  IF ~Falsy(recommended) /\ recommended.t \in {"object", "array"}
       /\ ~HookReadThrows(recommended)
    THEN generateHooksConfig(recommended)
    ELSE <<Entry(Key(Stop), DefaultStop)>>

RECURSIVE NamesFrom(_, _)
\* generatedFiles.agents (or commands): the names pushed by the loop from
\* element i on
NamesFrom(list, i) ==
  IF i > Len(list.e) THEN << >>
  ELSE IF Falsy(GetProp(list.e[i].v, NameKey)) THEN NamesFrom(list, i + 1)
  ELSE <<GetProp(list.e[i].v, NameKey).s>> \o NamesFrom(list, i + 1)

\* FileGenerator.generate: agent files, command files, CLAUDE.md, hooks
\* configuration, in that order; it throws when there are no agents, and
\* after the agent files when there are no commands
Generated(agents, commands, recommended) ==
  IF ~NonEmptyArray(agents)
    THEN [threw |-> TRUE, files |-> {}, error |-> "No agents found",
          reported |-> << >>, hooks |-> << >>]
  ELSE IF ~NonEmptyArray(commands)
    THEN [threw |-> TRUE, files |-> NamedFiles("agent", agents),
          error |-> "No commands found", reported |-> << >>, hooks |-> << >>]
  ELSE [threw |-> FALSE,
        files |-> NamedFiles("agent", agents) \cup NamedFiles("command", commands)
                    \cup {[kind |-> "CLAUDE.md", name |-> << >>],
                          [kind |-> "hooks", name |-> << >>]},
        error |-> "none",
        reported |-> [agents |-> NamesFrom(agents, 1),
                      commands |-> NamesFrom(commands, 1)],
        hooks |-> WrittenHooks(recommended)]

GenerateAs(g, tracked) ==
  /\ pc' = IF g.threw THEN "exit1" ELSE "exit0"
  /\ files' = g.files
  /\ error' = g.error
  /\ generated' = g.reported
  /\ hooksConfig' = g.hooks
  /\ progress' = tracked
  /\ UNCHANGED <<policy, method, calls, body, wrap, text, extracted, outcome, result,
                 failures, trace, claudeMd, profile>>

\* the progress steps main completes once the client has returned, up to
\* the call of generate
StepsBeforeGenerate ==
  (IF method = "generateFromIdea" THEN <<"analyze-idea">> ELSE << >>)
  \o <<"generate-setup", "create-agents", "create-commands", "create-hooks">>

\* the tracker of main after the steps before generate, the call of
\* generate, and either complete('create-rules') and stopAnimation or
\* the stopAnimation of the catch block
TrackedGenerate(p, threw) ==
  IF DOMAIN p = {} THEN p
  ELSE IF threw THEN StoppedIfTracker(CompletedAll(p, StepsBeforeGenerate, 1))
  ELSE StoppedIfTracker(
         CompletedAll(p, Append(StepsBeforeGenerate, "create-rules"), 1))

GenerateFrom(recommendations) ==
  GenerateAs(Generated(GetProp(recommendations, Key(recommendedAgents)),
                       GetProp(recommendations, Key(recommendedCommands)),
                       GetProp(recommendations, Key(recommendedHooks))),
             TrackedGenerate(progress,
                             ~NonEmptyArray(GetProp(recommendations, Key(recommendedAgents)))
                               \/ ~NonEmptyArray(GetProp(recommendations,
                                                         Key(recommendedCommands)))))

\* main after the client returned: parse, generate, report or exit(1)
Generate ==
  /\ pc = "done"
  /\ outcome = "return"
  /\ GenerateFrom(Recommendations(result))

CliNext ==
  \/ ResolveBody
  \/ Reject
  \/ MainCatch
  \/ Generate

CliSpec == CliInit /\ [][CliNext]_vars

\* C20: a run of the main flow that ends in the error exit, because the
\* client call or the generation raised an error, has written no
\* configuration file to the project.
C20_FailedRunWritesNothing ==
  pc = "exit1" => files = {}

\* ------------------------------------------------------------------------
\* validateApiKey: the probe call and what the method returns.  error is
\* what the last probe failed with, result the boolean returned, trace the
\* probes so far.
\* ------------------------------------------------------------------------
MaxProbes == 3

\* error.status of a rejection: HTTP statuses, or an error without one
ErrorStatuses == {"401", "403", "429", "500", "undefined"}

ProbeInit ==
  /\ pc = "idle"
  /\ policy = "permissive"
  /\ method = "none"
  /\ calls = 0
  /\ body = << >>
  /\ wrap = "none"
  /\ text = << >>
  /\ extracted = << >>
  /\ outcome = "none"
  /\ result = << >>
  /\ error = "none"
  /\ failures = << >>
  /\ trace = << >>
  /\ files = {}
  /\ generated = << >>
  /\ hooksConfig = << >>
  /\ claudeMd = << >>
  /\ progress = << >>
  /\ profile = << >>

\* validateApiKey up to the await of messages.create
Probe ==
  /\ pc = "idle"
  /\ calls < MaxProbes
  /\ pc' = "awaiting"
  /\ method' = "validateApiKey"
  /\ calls' = calls + 1
  /\ outcome' = "none"
  /\ result' = << >>
  /\ error' = "none"
  /\ UNCHANGED <<policy, body, wrap, text, extracted, failures, trace, files, generated,
                 hooksConfig, claudeMd, progress, profile>>

\* validateApiKey returns value after the probe ended with status
ProbeReturns(status, value) ==
  /\ pc' = "idle"
  /\ outcome' = "return"
  /\ result' = value
  /\ error' = status
  /\ trace' = Append(trace, <<status, value>>)
  /\ UNCHANGED <<policy, method, calls, body, wrap, text, extracted, failures, files,
                 generated, hooksConfig, claudeMd, progress, profile>>

\* the probe resolves: return true
ProbeResolves ==
  /\ pc = "awaiting"
  /\ ProbeReturns("none", <<"T">>)

\* ProbeRejects that takes every failure for an invalid key
ProbeRejectsAllInvalid ==
  /\ pc = "awaiting"
  /\ \E status \in ErrorStatuses : ProbeReturns(status, <<"F">>)

\* the probe rejects: catch (error) { if (error.status === 401) return
\* false; return true; }
ProbeRejects ==
  /\ pc = "awaiting"
  /\ \E status \in ErrorStatuses :
       ProbeReturns(status, IF status = "401" THEN <<"F">> ELSE <<"T">>)

ProbeNext ==
  \/ Probe
  \/ ProbeResolves
  \/ ProbeRejects

ProbeSpec == ProbeInit /\ [][ProbeNext]_vars

\* C21: validateApiKey never throws; it returns false exactly when the
\* probe call failed with status 401, and true when the call succeeded or
\* failed with any other error, an error without a status included.
C21_FalseIffStatus401 ==
  /\ outcome # "throw"
  /\ (pc = "idle" /\ calls > 0) => outcome = "return"
  /\ \A i \in 1..Len(trace) :
       /\ trace[i][2] \in {<<"T">>, <<"F">>}
       /\ trace[i][2] = <<"F">> <=> trace[i][1] = "401"

\* three probes: one succeeded, one failed with 429, one with 401
C21_Witness ==
  /\ pc = "idle"
  /\ trace = <<<<"none", <<"T">>>>, <<"429", <<"T">>>>, <<"401", <<"F">>>>>>

TrackerInit ==
  /\ pc = "tracking"
  /\ policy = "permissive"
  /\ method = "none"
  /\ calls = 0
  /\ body = << >>
  /\ wrap = "none"
  /\ text = << >>
  /\ extracted = << >>
  /\ outcome = "none"
  /\ result = << >>
  /\ error = "none"
  /\ failures = << >>
  /\ trace = << >>
  /\ files = {}
  /\ generated = << >>
  /\ hooksConfig = << >>
  /\ claudeMd = << >>
  /\ progress = NewTracker(StepIds)
  /\ profile = << >>

\* one event on the tracker that leaves it as q
TrackerBecomes(q, event) ==
  /\ progress' = q
  /\ trace' = LastTwo(trace, event)
  /\ UNCHANGED <<pc, policy, method, calls, body, wrap, text, extracted, outcome,
                 result, error, failures, files, generated, hooksConfig, claudeMd,
                 profile>>

CompleteStep ==
  /\ pc = "tracking"
  /\ progress.timers < MaxTimers
  /\ \E stepId \in {StepIds[i] : i \in 1..Len(StepIds)} \cup {InvalidStep} :
       TrackerBecomes(complete(progress, stepId), <<"complete", stepId>>)

StartAnimation ==
  /\ pc = "tracking"
  /\ progress.timers < MaxTimers
  /\ TrackerBecomes(startAnimation(progress), <<"startAnimation", "">>)

StopAnimation ==
  /\ pc = "tracking"
  /\ TrackerBecomes(stopAnimation(progress), <<"stopAnimation", "">>)

ResetTracker ==
  /\ pc = "tracking"
  /\ TrackerBecomes(reset(progress), <<"reset", "">>)

TimerFires ==
  /\ pc = "tracking"
  /\ progress.animationInterval # 0
  /\ TrackerBecomes(AnimationTick(progress), <<"timer", "">>)

TrackerNext ==
  \/ CompleteStep
  \/ StartAnimation
  \/ StopAnimation
  \/ ResetTracker
  \/ TimerFires

TrackerSpec == TrackerInit /\ [][TrackerNext]_vars

\* the event of the step just taken
LastEvent == trace'[Len(trace')]

\* C25: complete with an id that names no step leaves the tracker as it
\* was (no completed or active flag changes, no timer is started or
\* stopped), and a complete with a valid id, also after such a call, marks
\* its step completed and not active.
C25_UnknownIdLeavesTracker ==
  [][/\ LastEvent = <<"complete", InvalidStep>> => progress' = progress
     /\ \A i \in 1..Len(StepIds) :
          LastEvent = <<"complete", StepIds[i]>> =>
            /\ progress'.steps[i].completed
            /\ ~progress'.steps[i].active]_vars

\* complete('invalid-step') on a running tracker, then complete('step2')
C25_Witness ==
  /\ trace = <<<<"complete", InvalidStep>>, <<"complete", "step2">>>>
  /\ progress.steps[1].completed
  /\ progress.steps[2].completed
  /\ progress.animationInterval = 2

\* the tracker under startAnimation, complete and stopAnimation calls
AnimationNext ==
  \/ CompleteStep
  \/ StartAnimation
  \/ StopAnimation
  \/ TimerFires

AnimationSpec == TrackerInit /\ [][AnimationNext]_vars

\* C26: whenever all steps of the tracker are completed, after any
\* sequence of startAnimation, complete and stopAnimation calls, the
\* animation interval is undefined (no timer is left running).
C26_NoTimerWhenAllCompleted ==
  AllCompleted(progress) => progress.animationInterval = 0

\* the tracker under complete and reset calls
CompleteResetNext ==
  \/ CompleteStep
  \/ ResetTracker
  \/ TimerFires

CompleteResetSpec == TrackerInit /\ [][CompleteResetNext]_vars

\* C28: after the constructor and any sequence of complete and reset
\* calls, at most one step is active and no step is both completed and
\* active.
C28_OneActiveNeverCompleted ==
  /\ Cardinality(ActiveSteps(progress)) <= 1
  /\ \A i \in 1..Len(progress.steps) :
       ~(progress.steps[i].completed /\ progress.steps[i].active)

\* ------------------------------------------------------------------------
\* FileGenerator.generate on the recommendations main hands to it: result
\* holds the analysis the client returned, main parses it and generates.
\* ------------------------------------------------------------------------
StopHook ==
  JObj(<<Entry(Key(description), JStr(<<"Verify with real tests">>)),
         Entry(Key(command), JStr(<<"npm test">>))>>)

\* a PostToolUse hook with the matcher m, or without one
ToolHook(m) ==
  JObj(Member(matcher, m)
       \o <<Entry(Key(description), JStr(<<"Run linter after file writes">>)),
            Entry(Key(command), JStr(<<"npm run lint">>))>>)

\* a hook with a command only
BareHook == JObj(<<Entry(Key(command), JStr(<<"npm run lint">>))>>)

\* recommendedHooks: absent, not an object, empty, with empty lists only,
\* without Stop, with Stop, and with lists that hold a hook with an empty
\* matcher or a null
HookForms ==
  {Absent, JNull, JStr(<<"x">>), JArr(<< >>), JObj(<< >>),
   JObj(<<Entry(Key(Stop), JArr(<< >>))>>),
   JObj(<<Entry(Key(PostToolUse), JArr(<< >>))>>),
   JObj(<<Entry(Key(Stop), JArr(<<StopHook>>))>>),
   JObj(<<Entry(Key(PostToolUse), JArr(<<ToolHook(JStr(<<"Write">>))>>))>>),
   JObj(<<Entry(Key(Stop), JArr(<<StopHook>>)),
          Entry(Key(PostToolUse), JArr(<<ToolHook(JStr(<<"Write">>))>>))>>),
   JObj(<<Entry(Key(PostToolUse), JArr(<<ToolHook(Absent), ToolHook(JStr(<<"Edit">>))>>))>>),
   JObj(<<Entry(Key(PreToolUse), JArr(<<BareHook>>))>>),
   JObj(<<Entry(Key(PostToolUse), JArr(<<ToolHook(JStr(<< >>))>>))>>),
   JObj(<<Entry(Key(Stop), JArr(<<StopHook>>)),
          Entry(Key(PostToolUse), JArr(<<JNull>>))>>)}

\* analyses: 0..MaxAgents agents, commands absent, empty or one, and
\* every form of recommendedHooks
GenResults ==
  {JSONStringify(JObj(<<Entry(Key(projectAnalysis), JObj(<< >>)),
                        Entry(Key(recommendedAgents), JArr(Named(n)))>>
                      \o Member(recommendedCommands, c)
                      \o Member(recommendedHooks, h)
                      \o <<Entry(Key(claudeRules), JObj(<< >>))>>)) :
     n \in 0..MaxAgents, c \in {Absent, JArr(<< >>), JArr(Named(1))}, h \in HookForms}

GenInit ==
  /\ pc = "done"
  /\ policy = "permissive"
  /\ method = "analyzeCodebase"
  /\ calls = 1
  /\ body = << >>
  /\ wrap = "none"
  /\ text = << >>
  /\ extracted = << >>
  /\ outcome = "return"
  /\ result \in GenResults
  /\ error = "none"
  /\ failures = << >>
  /\ trace = << >>
  /\ files = {}
  /\ generated = << >>
  /\ hooksConfig = << >>
  /\ claudeMd = << >>
  /\ progress = << >>
  /\ profile = << >>

GenSpec == GenInit /\ [][Generate]_vars

\* the recommendations of the run, and their parts
RunAgents == GetProp(Recommendations(result), Key(recommendedAgents))

RunHooks == GetProp(Recommendations(result), Key(recommendedHooks))

\* C22: when recommendedAgents is an empty array, generate does not fail:
\* it writes exactly one default agent named 'Development Helper' and
\* reports exactly that one agent.
C22_EmptyAgentsGetDefaultAgent ==
  (pc \in {"exit0", "exit1"} /\ IsArray(RunAgents) /\ Len(RunAgents.e) = 0) =>
    /\ pc = "exit0"
    /\ generated.agents = <<<<"Development Helper">>>>
    /\ {f \in files : f.kind = "agent"} =
         {[kind |-> "agent", name |-> <<"Development Helper">>]}

\* the list written for the hook type of entry i of the supplied hooks
WrittenList(i) == hooksConfig[KeyIndex(hooksConfig, RunHooks.e[i].k)].v

\* the Stop list of the written configuration is there and not empty
StopWritten ==
  /\ KeyIndex(hooksConfig, Key(Stop)) # 0
  /\ NonEmptyArray(hooksConfig[KeyIndex(hooksConfig, Key(Stop))].v)

\* the hook type of entry i of the supplied hooks is kept: a list of the
\* same length, each hook with its command
TypeKept(i) ==
  /\ KeyIndex(hooksConfig, RunHooks.e[i].k) # 0
  /\ Len(WrittenList(i).e) = Len(RunHooks.e[i].v.e)
  /\ \A j \in 1..Len(RunHooks.e[i].v.e) :
       GetProp(GetProp(WrittenList(i).e[j].v, Key(hooks)).e[1].v, Key(command))
         = GetProp(RunHooks.e[i].v.e[j].v, Key(command))

\* hook j of the PostToolUse entry i keeps its matcher
MatcherKept(i, j) ==
  /\ KeyIndex(hooksConfig, RunHooks.e[i].k) # 0
  /\ j <= Len(WrittenList(i).e)
  /\ GetProp(WrittenList(i).e[j].v, Key(matcher))
       = GetProp(RunHooks.e[i].v.e[j].v, Key(matcher))

\* some supplied list holds a null, whose properties cannot be read
NullHookSupplied ==
  \E i \in 1..Len(RunHooks.e) :
    /\ IsArray(RunHooks.e[i].v)
    /\ \E j \in 1..Len(RunHooks.e[i].v.e) : RunHooks.e[i].v.e[j].v.t = "null"

\* C23 as stated: whenever generate completes, the hooks configuration
\* holds a non-empty Stop list, every hook type supplied with a non-empty
\* list is kept, and every PostToolUse hook that has a matcher keeps it.
C23_HooksKeptAsStated ==
  pc = "exit0" =>
    /\ StopWritten
    /\ RunHooks.t = "object" =>
         \A i \in 1..Len(RunHooks.e) :
           NonEmptyArray(RunHooks.e[i].v) =>
             /\ TypeKept(i)
             /\ RunHooks.e[i].k = Key(PostToolUse) =>
                  \A j \in 1..Len(RunHooks.e[i].v.e) :
                    HasOwnProperty(RunHooks.e[i].v.e[j].v, Key(matcher)) =>
                      MatcherKept(i, j)

\* C23 amended: whenever generate completes, the hooks configuration holds
\* a non-empty Stop list; unless a supplied list holds a null, every hook
\* type supplied with a non-empty list is kept, and every PostToolUse
\* hook with a non-empty matcher keeps it.
C23_HooksKept ==
  pc = "exit0" =>
    /\ StopWritten
    /\ (RunHooks.t = "object" /\ ~NullHookSupplied) =>
         \A i \in 1..Len(RunHooks.e) :
           NonEmptyArray(RunHooks.e[i].v) =>
             /\ TypeKept(i)
             /\ RunHooks.e[i].k = Key(PostToolUse) =>
                  \A j \in 1..Len(RunHooks.e[i].v.e) :
                    ~Falsy(GetProp(RunHooks.e[i].v.e[j].v, Key(matcher))) =>
                      MatcherKept(i, j)

\* generate completed on hooks without Stop: the PostToolUse hook is
\* written with its matcher, and the default Stop list is added
C23_Witness ==
  /\ pc = "exit0"
  /\ RunHooks = JObj(<<Entry(Key(PostToolUse), JArr(<<ToolHook(JStr(<<"Write">>))>>))>>)
  /\ Len(hooksConfig) = 2
  /\ hooksConfig[1].k = Key(PostToolUse)
  /\ GetProp(hooksConfig[1].v.e[1].v, Key(matcher)) = JStr(<<"Write">>)
  /\ hooksConfig[2] = Entry(Key(Stop), DefaultStop)

\* C27: a configuration the client returned without throwing is accepted
\* by FileGenerator.generate: the run does not end with its 'No agents
\* found' or 'No commands found' error.
C27_ReturnedConfigAccepted ==
  outcome = "return" => error \notin {"No agents found", "No commands found"}

\* ------------------------------------------------------------------------
\* CLAUDE.md (the generate of unnamed/part_002, which writes the file
\* itself).  claudeMd is the file: whether it exists, and its content as
\* a sequence of lines and line breaks; trace holds the rules of the runs
\* so far, generated the content reported by the last run.
\* ------------------------------------------------------------------------
MaxRuns == 3

RECURSIVE RuleLines(_, _)
\* rules.map(rule => "- " + rule).join('\n'), from rule i on
RuleLines(rules, i) ==
  IF i > Len(rules) THEN << >>
  ELSE IF i = Len(rules) THEN <<"- ", rules[i]>>
  ELSE <<"- ", rules[i], NL>> \o RuleLines(rules, i + 1)

\* generateClaudeMd: the template filled with the four rule lists
ClaudeMdContent(rules) ==
  <<"# Claude Code Configuration", NL, NL, "Generated for", NL, NL,
    "## Coding Standards", NL, NL>> \o RuleLines(rules[1], 1)
  \o <<NL, NL, "## Architecture Guidelines", NL, NL>> \o RuleLines(rules[2], 1)
  \o <<NL, NL, "## Testing Requirements", NL, NL>> \o RuleLines(rules[3], 1)
  \o <<NL, NL, "## Simplicity Guardrails", NL, NL>> \o RuleLines(rules[4], 1)
  \o <<NL, NL, "## Important Reminders", NL, NL, "- Always write REAL tests", NL>>

AutoGenerated == <<NL, NL, "# Auto-generated Configuration", NL>>

\* the content written over an existing file that must have been
\* preserved
UpdatedContentReplacing(existing, content) == content

\* updatedContent: the existing text, the heading, the new content
UpdatedContent(existing, content) == existing \o AutoGenerated \o content

\* the file after the CLAUDE.md step of generate
WrittenClaudeMd(file, content) ==
  IF file.exists
    THEN [exists |-> TRUE, content |-> UpdatedContent(file.content, content)]
    ELSE [exists |-> TRUE, content |-> content]

\* claudeRules of the runs: the lists of the tests, and lists of two and
\* of no rules
RuleSets ==
  {<<<<"New standard">>, <<"New guideline">>, <<"New requirement">>, <<"New guardrail">>>>,
   <<<<"Default standards">>, <<"Default guidelines">>, <<"Default testing">>,
     <<"Default guardrails">>>>,
   <<<<"Use strict mode", "No any">>, << >>, <<"Real tests">>, <<"No extras">>>>}

\* CLAUDE.md before the first run: none, empty, or written by the user
ExistingFiles ==
  {[exists |-> FALSE, content |-> << >>],
   [exists |-> TRUE, content |-> << >>],
   [exists |-> TRUE, content |-> <<"# Existing Configuration", NL, NL, "Some existing rules.">>],
   [exists |-> TRUE, content |-> <<"# Auto-generated Configuration", NL>>]}

ClaudeMdInit ==
  /\ pc = "idle"
  /\ policy = "permissive"
  /\ method = "none"
  /\ calls = 0
  /\ body = << >>
  /\ wrap = "none"
  /\ text = << >>
  /\ extracted = << >>
  /\ outcome = "none"
  /\ result = << >>
  /\ error = "none"
  /\ failures = << >>
  /\ trace = << >>
  /\ files = {}
  /\ generated = << >>
  /\ hooksConfig = << >>
  /\ claudeMd \in ExistingFiles
  /\ progress = << >>
  /\ profile = << >>

\* one run of generate with the content made from rules
WriteClaudeMd(rules, content) ==
  /\ calls' = calls + 1
  /\ claudeMd' = WrittenClaudeMd(claudeMd, content)
  /\ generated' = [claudeMd |-> content]
  /\ trace' = Append(trace, rules)
  /\ UNCHANGED <<pc, policy, method, body, wrap, text, extracted, outcome, result,
                 error, failures, files, hooksConfig, progress, profile>>

GenerateClaudeMd ==
  /\ pc = "idle"
  /\ calls < MaxRuns
  /\ \E rules \in RuleSets : WriteClaudeMd(rules, ClaudeMdContent(rules))

ClaudeMdSpec == ClaudeMdInit /\ [][GenerateClaudeMd]_vars

\* s occurs in t from position i
OccursAt(s, t, i) == i + Len(s) - 1 <= Len(t) /\ SubSeq(t, i, i + Len(s) - 1) = s

ProjectTypes == {"new", "existing", "update"}

NewSteps ==
  <<"analyze-idea", "generate-setup", "create-agents", "create-commands",
    "create-hooks", "create-rules">>

ExistingSteps ==
  <<"analyze-codebase", "detect-patterns", "generate-setup", "create-agents",
    "create-commands", "create-hooks", "create-rules">>

\* the overwrite prompt is shown
OverwriteAsked(projectType, claudeDir) == projectType = "existing" /\ claudeDir

\* SetupEnds that goes on when the user declines
SetupEndsIgnoringAnswer(keyValid, projectType, claudeDir, overwrite) ==
  IF ~keyValid THEN "exit1" ELSE "profiled"

\* how startInteractiveSetup ends: process.exit(1) on an invalid key,
\* process.exit(0) when the overwrite prompt is declined, else it returns
SetupEnds(keyValid, projectType, claudeDir, overwrite) ==
  IF ~keyValid THEN "exit1"
  ELSE IF OverwriteAsked(projectType, claudeDir) /\ ~overwrite THEN "exit0"
  ELSE "profiled"

MainInit ==
  /\ pc = "setup"
  /\ policy = "permissive"
  /\ method = "none"
  /\ calls = 0
  /\ body \in CliBodies
  /\ wrap = "bare"
  /\ text = << >>
  /\ extracted = << >>
  /\ outcome = "none"
  /\ result = << >>
  /\ error = "none"
  /\ failures = << >>
  /\ trace = << >>
  /\ files = {}
  /\ generated = << >>
  /\ hooksConfig = << >>
  /\ claudeMd = << >>
  /\ progress = << >>
  /\ profile = << >>

\* startInteractiveSetup ends as next with the answers given
SetupAs(next, projectType, claudeDir, overwrite) ==
  /\ pc' = next
  /\ profile' = IF next = "exit1" THEN << >>
                ELSE [projectType |-> projectType,
                      claudeDir |-> claudeDir,
                      asked |-> OverwriteAsked(projectType, claudeDir),
                      confirmed |-> OverwriteAsked(projectType, claudeDir) /\ overwrite]
  /\ UNCHANGED <<policy, method, calls, body, wrap, text, extracted, outcome, result,
                 error, failures, trace, files, generated, hooksConfig, claudeMd,
                 progress>>

StartInteractiveSetup ==
  /\ pc = "setup"
  /\ \E keyValid \in BOOLEAN, projectType \in ProjectTypes, claudeDir \in BOOLEAN,
        overwrite \in BOOLEAN :
       SetupAs(SetupEnds(keyValid, projectType, claudeDir, overwrite),
               projectType, claudeDir, overwrite)

\* main from the creation of the tracker to the await of the client call
StartRun ==
  /\ pc = "profiled"
  /\ pc' = "awaiting"
  /\ calls' = 1
  /\ method' = IF profile.projectType = "new" THEN "generateFromIdea"
               ELSE "analyzeCodebase"
  /\ progress' = IF profile.projectType = "new"
                   THEN startAnimation(NewTracker(NewSteps))
                   ELSE CompletedAll(startAnimation(NewTracker(ExistingSteps)),
                                     <<"analyze-codebase", "detect-patterns">>, 1)
  /\ UNCHANGED <<policy, body, wrap, text, extracted, outcome, result, error, failures,
                 trace, files, generated, hooksConfig, claudeMd, profile>>

MainNext ==
  \/ StartInteractiveSetup
  \/ StartRun
  \/ ResolveBody
  \/ Reject
  \/ MainCatch
  \/ Generate

MainSpec == MainInit /\ [][MainNext]_vars

\* generate has been invoked: it wrote files, or it threw
GenerateInvoked == files # {} \/ error \in {"No agents found", "No commands found"}

\* C29 as stated: when the chosen project path holds a .claude directory,
\* for the project types 'existing' and 'update' alike, generate is
\* invoked and files are written only after the user confirmed the
\* overwrite prompt; a run whose prompt was declined or never shown ends
\* before generate.
C29_OverwriteConfirmedAsStated ==
  (DOMAIN profile # {} /\ profile.claudeDir
     /\ profile.projectType \in {"existing", "update"} /\ GenerateInvoked) =>
    profile.confirmed

\* C29 amended: for the project type 'existing', when the chosen path
\* holds a .claude directory the overwrite prompt is shown, generate is
\* invoked and files are written only after the user confirmed it, and a
\* run whose prompt was declined has ended with exit code 0, with no file
\* written and no progress tracker started.
C29_OverwriteConfirmed ==
  (DOMAIN profile # {} /\ profile.claudeDir /\ profile.projectType = "existing") =>
    /\ profile.asked
    /\ GenerateInvoked => profile.confirmed
    /\ ~profile.confirmed =>
         /\ pc = "exit0"
         /\ files = {}
         /\ ~GenerateInvoked
         /\ DOMAIN progress = {}

\* the user confirmed the overwrite of an existing project's .claude, and
\* the run wrote its files
C29_Witness ==
  /\ pc = "exit0"
  /\ DOMAIN profile # {}
  /\ profile.projectType = "existing"
  /\ profile.claudeDir
  /\ profile.confirmed
  /\ files # {}

\* the step id of the tracker of main is shown as done
StepDone(id) ==
  \E i \in 1..Len(progress.steps) :
    progress.steps[i].id = id /\ progress.steps[i].completed

\* C30: the steps 'create-agents', 'create-commands' and 'create-hooks'
\* are completed only after generate has written the files, so no run
\* shows them as done and ends with the error of generate.
C30_StepsDoneAfterGenerate ==
  DOMAIN progress # {} =>
    \A id \in {"create-agents", "create-commands", "create-hooks"} :
      StepDone(id) =>
        /\ error \notin {"No agents found", "No commands found"}
        /\ [kind |-> "hooks", name |-> << >>] \in files
====
